---- MODULE Spec2Model ----
(***************************************************************************)
(* Ingress pool of rs/artifact_pool/src/ingress_pool.rs: two pool sections *)
(* (validated, unvalidated) keyed by IngressMessageId = (expiry, message   *)
(* id), with a memoized byte size, and the change-set applier.             *)
(***************************************************************************)
EXTENDS Integers, Sequences, FiniteSets, TLC

\* ------------------------------------------------------------------ bounds
\* Longest change set handed to apply_changes.
MaxChanges == 2
\* Latest time the time source is advanced to.
MaxTime == 3

\* ------------------------------------------------------------ value domains
\* Expiry times of messages.
Expiries == {1, 2}
\* Content hashes (MessageId); the pool holds one message per expiry here, its
\* hash the least one (all bytes 0x00).
ZeroHash == 0
Hashes == {ZeroHash}
\* Byte sizes a signed ingress message can have (the same message id can come
\* in envelopes of different sizes).
ByteSizes == {1, 2}
\* Times of arrival.
Times == {0, 1}
\* Nodes: the pool's own node and one other peer.
node_id == 0
NodeIds == {node_id, 1}
\* The peer an inserted artifact came from (stored, never read by the pool).
PeerIds == {1}

\* IngressMessageId: (expiry, message id), ordered expiry first.
IngressMessageIds == Expiries \X Hashes

\* SignedIngress / IngressPoolObject: the message, its id and its byte size.
SignedIngresses ==
    [expiry : Expiries, message_id : Hashes, byte_size : ByteSizes]

\* IngressMessageId::from(&IngressPoolObject)
IngressMessageIdFrom(obj) == <<obj.expiry, obj.message_id>>

\* Ord for IngressMessageId: expiry first, then the message id.
IdLess(a, b) == a[1] < b[1] \/ (a[1] = b[1] /\ a[2] < b[2])

\* UnvalidatedArtifact<SignedIngress> as handed to MutablePool::insert. A
\* message arrives at time 0 in its 1-byte envelope, and may arrive again at
\* time 1 in its 2-byte envelope.
UnvalidatedArtifacts ==
    {a \in [message : SignedIngresses, peer_id : PeerIds, timestamp : Times] :
        a.timestamp + 1 = a.message.byte_size}

\* usize::MAX, the cap that disables throttling, at the width of the model's
\* integers.
usize_MAX == 2147483647
\* The caps a pool is configured with: a small one, or none.
MaxCounts == {2, usize_MAX}
MaxBytes == {3, usize_MAX}

\* ic_constants::MAX_INGRESS_TTL, in the unit of Expiries.
MAX_INGRESS_TTL == 1
\* The values of the time source.
Clock == 0..MaxTime

\* Option<T>
None == <<>>
Some(x) == <<x>>

\* ------------------------------------------------------- IngressPoolSection
\* AsRef<IngressPoolObject> of a validated (msg) or unvalidated (message)
\* artifact, and its count_bytes().
AsPoolObject(artifact) ==
    IF "msg" \in DOMAIN artifact THEN artifact.msg ELSE artifact.message

ArtifactBytes(artifact) == AsPoolObject(artifact).byte_size

\* IngressPoolSection::new
NewSection == [artifacts |-> <<>>, byte_size |-> 0]

\* The map without one key.
MapRemove(map, id) == [k \in (DOMAIN map) \ {id} |-> map[k]]

\* The map with a key set.
MapInsert(map, id, v) ==
    [k \in (DOMAIN map) \cup {id} |-> IF k = id THEN v ELSE map[k]]

\* Mutant of SectionInsert: a replaced entry's bytes are not subtracted.
SectionInsert_KeepsPrevBytes(section, message_id, artifact) ==
    [artifacts |-> MapInsert(section.artifacts, message_id, artifact),
     byte_size |-> section.byte_size + ArtifactBytes(artifact)]

\* Mutant of SectionInsert: an entry that is there is kept, the new artifact
\* is dropped.
SectionInsert_KeepsOld(section, message_id, artifact) ==
    IF message_id \in DOMAIN section.artifacts
    THEN section
    ELSE [artifacts |-> MapInsert(section.artifacts, message_id, artifact),
          byte_size |-> section.byte_size + ArtifactBytes(artifact)]

\* IngressPoolSection::insert
SectionInsert(section, message_id, artifact) ==
    LET new_artifact_size == ArtifactBytes(artifact)
    IN  IF message_id \in DOMAIN section.artifacts
        THEN LET prev_size == ArtifactBytes(section.artifacts[message_id])
             IN  [artifacts |-> MapInsert(section.artifacts, message_id, artifact),
                  byte_size |-> (section.byte_size - prev_size) + new_artifact_size]
        ELSE [artifacts |-> MapInsert(section.artifacts, message_id, artifact),
              byte_size |-> section.byte_size + new_artifact_size]

\* Mutant of SectionRemove: the bytes of the removed artifact are not
\* subtracted.
SectionRemove_KeepsBytes(section, message_id) ==
    IF message_id \in DOMAIN section.artifacts
    THEN [section |->
             [artifacts |-> MapRemove(section.artifacts, message_id),
              byte_size |-> section.byte_size],
          removed |-> Some(section.artifacts[message_id])]
    ELSE [section |-> section, removed |-> None]

\* IngressPoolSection::remove: the section afterwards and the removed artifact.
SectionRemove(section, message_id) ==
    IF message_id \in DOMAIN section.artifacts
    THEN [section |->
             [artifacts |-> MapRemove(section.artifacts, message_id),
              byte_size |-> section.byte_size
                              - ArtifactBytes(section.artifacts[message_id])],
          removed |-> Some(section.artifacts[message_id])]
    ELSE [section |-> section, removed |-> None]

\* IngressPoolSection::exists
SectionExists(section, message_id) == message_id \in DOMAIN section.artifacts

\* The keys of a set in ascending order (the iteration order of a BTreeMap).
RECURSIVE SortedKeys(_)
SortedKeys(keys) ==
    IF keys = {} THEN <<>>
    ELSE LET least == CHOOSE k \in keys : \A o \in keys : o = k \/ IdLess(k, o)
         IN  <<least>> \o SortedKeys(keys \ {least})

\* Sum of the byte sizes of the artifacts under a set of keys.
RECURSIVE SumBytes(_, _)
SumBytes(map, keys) ==
    IF keys = {} THEN 0
    ELSE LET k == CHOOSE x \in keys : TRUE
         IN  ArtifactBytes(map[k]) + SumBytes(map, keys \ {k})

\* IngressPoolSection::count_bytes_slow
CountBytesSlow(section) == SumBytes(section.artifacts, DOMAIN section.artifacts)

\* Mutant of SectionPurgeBelow: the map is split at (expiry, 0xff...ff).
SectionPurgeBelow_SplitsAtMaxHash(section, expiry) ==
    LET key == <<expiry, 255>>
        to_remove == {k \in DOMAIN section.artifacts : IdLess(k, key)}
        order == SortedKeys(to_remove)
    IN  [section |->
            [artifacts |-> [k \in (DOMAIN section.artifacts) \ to_remove
                              |-> section.artifacts[k]],
             byte_size |-> section.byte_size
                             - SumBytes(section.artifacts, to_remove)],
         purged |-> [i \in 1..Len(order) |-> section.artifacts[order[i]]]]

\* IngressPoolSection::purge_below: split the map at (expiry, 0...0); the part
\* below is removed and handed back in key order.
SectionPurgeBelow(section, expiry) ==
    LET key == <<expiry, ZeroHash>>
        to_remove == {k \in DOMAIN section.artifacts : IdLess(k, key)}
        order == SortedKeys(to_remove)
    IN  [section |->
            [artifacts |-> [k \in (DOMAIN section.artifacts) \ to_remove
                              |-> section.artifacts[k]],
             byte_size |-> section.byte_size
                             - SumBytes(section.artifacts, to_remove)],
         purged |-> [i \in 1..Len(order) |-> section.artifacts[order[i]]]]

\* PoolSection::get_timestamp
GetTimestamp(section, message_id) ==
    IF message_id \in DOMAIN section.artifacts
    THEN Some(section.artifacts[message_id].timestamp)
    ELSE None

\* PoolSection::size
SectionSize(section) == Cardinality(DOMAIN section.artifacts)

\* ---------------------------------------------------------------- ChangeSet
\* ChangeAction, the four variants.
\* The size and the integrity hash the validator puts into a MoveToValidated
\* are those of the message: one value per message id, different across ids.
AdvertSizeOf(id) == 10 * id[1] + id[2]
IntegrityHashOf(id) == <<"crypto_hash", id>>

MoveToValidatedActions ==
    {[kind |-> "MoveToValidated", id |-> id, source_node_id |-> n,
      size |-> AdvertSizeOf(id), integrity_hash |-> IntegrityHashOf(id)] :
        id \in IngressMessageIds, n \in NodeIds}

RemoveFromUnvalidatedActions ==
    [kind : {"RemoveFromUnvalidated"}, id : IngressMessageIds]

RemoveFromValidatedActions ==
    [kind : {"RemoveFromValidated"}, id : IngressMessageIds]

PurgeBelowExpiryActions ==
    [kind : {"PurgeBelowExpiry"}, expiry : Expiries \cup {3}]

ChangeActions ==
    MoveToValidatedActions \cup RemoveFromUnvalidatedActions
        \cup RemoveFromValidatedActions \cup PurgeBelowExpiryActions

\* ChangeSet = Vec<ChangeAction>, of at most MaxChanges actions.
ChangeSets == UNION {[1..n -> ChangeActions] : n \in 0..MaxChanges}

\* The messages the validated section is filled with where it is filled
\* through IngressPoolSection's own functions: those of the least and of the
\* greatest content hash at every expiry.
MaxHash == 255
SectionHashes == {ZeroHash, MaxHash}
SectionIds == Expiries \X SectionHashes

\* sort_unstable_by_key gives no order among elements of equal key, and gives
\* the same result for the same input: a build resolves the ties its own
\* way. The ways are the rankings of the ids; KeyOrderTies is the one that
\* follows the key order.
TieOrders ==
    {r \in [SectionIds -> 1..Cardinality(SectionIds)] :
        \A a, b \in SectionIds : r[a] = r[b] => a = b}
KeyOrderTies ==
    [id \in SectionIds |-> 1 + Cardinality({k \in SectionIds : IdLess(k, id)})]

\* ------------------------------------------------------------ IngressPoolImpl
VARIABLES
    validated,      \* IngressPoolImpl.validated: IngressPoolSection
    unvalidated,    \* IngressPoolImpl.unvalidated: IngressPoolSection
    status,         \* "running", or "panicked" once unreachable!() was hit
    last,           \* the call that just ran and whose result the caller
                    \* holds: the operation, its input, the pool before it,
                    \* the states its loop went through, and its result
    earlier,        \* the call before that one, where the owner kept it
    sort_ties,      \* how the build's sort_unstable_by_key orders artifacts
                    \* of equal key: the rank of each id among its equals
    ingress_pool_max_count,     \* IngressPoolImpl.ingress_pool_max_count
    ingress_pool_max_bytes,     \* IngressPoolImpl.ingress_pool_max_bytes
    time_source,    \* IngressPrioritizer.time_source: the time it gives
    priority_fn     \* the PriorityFn get_priority_function returned last

\* The configuration of the pool, and the prioritizer with its product.
config == <<ingress_pool_max_count, ingress_pool_max_bytes>>
prioritizer == <<time_source, priority_fn>>

\* What is fixed once the node is built and configured.
setup == <<config, sort_ties>>

\* ---------------------------------------------------------------- governance
VARIABLES
    heap_neurons,           \* NeuronStore.heap_neurons: BTreeMap<u64, Neuron>
    topic_followee_index,   \* NeuronStore.topic_followee_index
    clock,                  \* NeuronStore.clock: the time of the system and
                            \* the time warp set last
    stable_neuron_store,    \* State.stable_neuron_store
    stable_neuron_indexes,  \* State.stable_neuron_indexes
    upgrades_memory,        \* State.upgrades_memory: its size in pages
    only_in_stable_memory   \* what the build's
                            \* should_store_inactive_neurons_only_in_stable_memory()
                            \* answers

\* The neuron store with the stable structures it works on, and the state of
\* the governance canister as a whole.
neuron_store == <<heap_neurons, topic_followee_index, clock, stable_neuron_store,
                  stable_neuron_indexes, only_in_stable_memory>>
governance == <<neuron_store, upgrades_memory>>

vars == <<validated, unvalidated, status, last, earlier, setup, prioritizer,
          governance>>

\* A map without entries (BTreeMap::new()).
EmptyMap == [key \in {} |-> None]

\* NeuronStore::new over no neurons and State::new: no neuron anywhere, empty
\* indexes, an upgrades memory of no page, no time warp.
GovernanceNew ==
    /\ heap_neurons = EmptyMap
    /\ topic_followee_index = {}
    /\ clock = [time |-> 0, time_warp |-> 0]
    /\ stable_neuron_store = EmptyMap
    /\ stable_neuron_indexes = {}
    /\ upgrades_memory = 0

\* The governance canister is no part of the node the pool runs in: it stays
\* as built, in a build that keeps a copy of each neuron on the heap.
GovernanceIdle ==
    /\ GovernanceNew
    /\ only_in_stable_memory = FALSE

\* IngressPoolImpl::remove_unvalidated: the unvalidated section afterwards and
\* the removed artifact with its size.
RemoveUnvalidated(section, message_id) ==
    LET r == SectionRemove(section, message_id)
    IN  IF r.removed # None
        THEN [section |-> r.section,
              removed |-> Some(<<r.removed[1], r.removed[1].message.byte_size>>)]
        ELSE [section |-> r.section, removed |-> None]

\* The Advert pushed for a MoveToValidated of the own node.
AdvertOf(action) ==
    [size |-> action.size, id |-> action.id,
     integrity_hash |-> action.integrity_hash]

\* MoveToValidated with its choices open: whether the advert depends on the
\* source, whether the unvalidated entry is removed, which timestamp the
\* validated entry gets, and what happens to validated when the unvalidated
\* entry is missing.
MoveToValidatedAs(st, action, advert_any_source, keep_unvalidated,
                  stamp_zero, drop_validated_on_fault) ==
    LET adverts == IF advert_any_source \/ action.source_node_id = node_id
                   THEN Append(st.adverts, AdvertOf(action))
                   ELSE st.adverts
        r == RemoveUnvalidated(st.unvalidated, action.id)
    IN  IF r.removed # None
        THEN LET unvalidated_artifact == r.removed[1][1]
             IN  [validated |->
                     SectionInsert(st.validated, action.id,
                         [msg |-> unvalidated_artifact.message,
                          timestamp |-> IF stamp_zero THEN 0
                                        ELSE unvalidated_artifact.timestamp]),
                  unvalidated |-> IF keep_unvalidated THEN st.unvalidated
                                  ELSE r.section,
                  adverts |-> adverts,
                  purged |-> st.purged,
                  fault |-> FALSE]
        ELSE [validated |-> IF drop_validated_on_fault
                            THEN SectionRemove(st.validated, action.id).section
                            ELSE st.validated,
              unvalidated |-> r.section,
              adverts |-> adverts,
              purged |-> st.purged,
              fault |-> TRUE]

\* Mutant of MoveToValidated: the entry stays in unvalidated.
MoveToValidated_KeepsUnvalidated(st, action) ==
    MoveToValidatedAs(st, action, FALSE, TRUE, FALSE, FALSE)

\* Mutant of MoveToValidated: the validated entry gets a fresh timestamp.
MoveToValidated_Restamps(st, action) ==
    MoveToValidatedAs(st, action, FALSE, FALSE, TRUE, FALSE)

\* Mutant of MoveToValidated: an advert whatever the source node.
MoveToValidated_AdvertsAnySource(st, action) ==
    MoveToValidatedAs(st, action, TRUE, FALSE, FALSE, FALSE)

\* Mutant of MoveToValidated: a missing unvalidated entry drops the validated
\* one.
MoveToValidated_DropsValidatedOnFault(st, action) ==
    MoveToValidatedAs(st, action, FALSE, FALSE, FALSE, TRUE)

\* Mutant of MoveToValidated: the bytes of the promoted entry stay counted in
\* the unvalidated section.
MoveToValidated_LeavesBytes(st, action) ==
    LET moved == MoveToValidatedAs(st, action, FALSE, FALSE, FALSE, FALSE)
    IN  [moved EXCEPT !.unvalidated.byte_size = st.unvalidated.byte_size]

\* Mutant of MoveToValidated: a missing unvalidated entry is passed over, the
\* loop goes on.
MoveToValidated_SkipsAbsent(st, action) ==
    LET r == RemoveUnvalidated(st.unvalidated, action.id)
    IN  IF r.removed # None
        THEN MoveToValidatedAs(st, action, FALSE, FALSE, FALSE, FALSE)
        ELSE st

\* apply_changes, arm ChangeAction::MoveToValidated. st is the state of the
\* loop: both sections, adverts, purged, and whether unreachable!() was hit.
MoveToValidated(st, action) ==
    LET adverts == IF action.source_node_id = node_id
                   THEN Append(st.adverts, AdvertOf(action))
                   ELSE st.adverts
        r == RemoveUnvalidated(st.unvalidated, action.id)
    IN  IF r.removed # None
        THEN LET unvalidated_artifact == r.removed[1][1]
             IN  [validated |->
                     SectionInsert(st.validated, action.id,
                         [msg |-> unvalidated_artifact.message,
                          timestamp |-> unvalidated_artifact.timestamp]),
                  unvalidated |-> r.section,
                  adverts |-> adverts,
                  purged |-> st.purged,
                  fault |-> FALSE]
        ELSE [validated |-> st.validated,
              unvalidated |-> r.section,
              adverts |-> adverts,
              purged |-> st.purged,
              fault |-> TRUE]

\* Mutant of RemoveFromUnvalidated: a missing entry is a fault, as it is for
\* MoveToValidated.
RemoveFromUnvalidated_FaultsOnAbsent(st, action) ==
    LET r == RemoveUnvalidated(st.unvalidated, action.id)
    IN  [st EXCEPT !.unvalidated = r.section, !.fault = (r.removed = None)]

\* Mutant of RemoveFromUnvalidated: the entries below the id go with it.
RemoveFromUnvalidated_TakesLowerKeys(st, action) ==
    LET below == {k \in DOMAIN st.unvalidated.artifacts :
                     IdLess(k, action.id) \/ k = action.id}
    IN  [st EXCEPT !.unvalidated =
            [artifacts |-> [k \in (DOMAIN st.unvalidated.artifacts) \ below
                              |-> st.unvalidated.artifacts[k]],
             byte_size |-> st.unvalidated.byte_size
                             - SumBytes(st.unvalidated.artifacts, below)]]

\* apply_changes, arm ChangeAction::RemoveFromUnvalidated.
RemoveFromUnvalidated(st, action) ==
    [st EXCEPT !.unvalidated = RemoveUnvalidated(st.unvalidated, action.id).section]

\* Mutant of RemoveFromValidated: the removed entry goes back to the
\* unvalidated section.
RemoveFromValidated_MovesBack(st, action) ==
    LET r == SectionRemove(st.validated, action.id)
    IN  IF r.removed # None
        THEN [st EXCEPT
                 !.validated = r.section,
                 !.unvalidated =
                     SectionInsert(st.unvalidated, action.id,
                         [message |-> r.removed[1].msg,
                          peer_id |-> node_id,
                          timestamp |-> r.removed[1].timestamp]),
                 !.purged = Append(st.purged, action.id)]
        ELSE [st EXCEPT !.validated = r.section]

\* Mutant of RemoveFromValidated: the id is reported purged even when absent.
RemoveFromValidated_AlwaysPurged(st, action) ==
    [st EXCEPT !.validated = SectionRemove(st.validated, action.id).section,
               !.purged = Append(st.purged, action.id)]

\* apply_changes, arm ChangeAction::RemoveFromValidated.
RemoveFromValidated(st, action) ==
    LET r == SectionRemove(st.validated, action.id)
    IN  IF r.removed # None
        THEN [st EXCEPT !.validated = r.section,
                        !.purged = Append(st.purged, action.id)]
        ELSE [st EXCEPT !.validated = r.section]

\* Mutant of PurgeBelowExpiry: the ids purged from unvalidated are reported
\* too.
PurgeBelowExpiry_ReportsUnvalidated(st, action) ==
    LET v == SectionPurgeBelow(st.validated, action.expiry)
        u == SectionPurgeBelow(st.unvalidated, action.expiry)
    IN  [st EXCEPT
            !.validated = v.section,
            !.purged = st.purged \o
                [i \in 1..Len(v.purged) |-> IngressMessageIdFrom(v.purged[i].msg)]
                \o [i \in 1..Len(u.purged) |->
                        IngressMessageIdFrom(u.purged[i].message)],
            !.unvalidated = u.section]

\* Mutant of PurgeBelowExpiry: the unvalidated section is purged only when
\* the iterator it hands back is gone through, which apply_changes never
\* does.
PurgeBelowExpiry_LeavesUnvalidated(st, action) ==
    LET v == SectionPurgeBelow(st.validated, action.expiry)
    IN  [st EXCEPT
            !.validated = v.section,
            !.purged = st.purged \o
                [i \in 1..Len(v.purged) |-> IngressMessageIdFrom(v.purged[i].msg)]]

\* apply_changes, arm ChangeAction::PurgeBelowExpiry.
PurgeBelowExpiry(st, action) ==
    LET v == SectionPurgeBelow(st.validated, action.expiry)
        u == SectionPurgeBelow(st.unvalidated, action.expiry)
    IN  [st EXCEPT
            !.validated = v.section,
            !.purged = st.purged \o
                [i \in 1..Len(v.purged) |-> IngressMessageIdFrom(v.purged[i].msg)],
            !.unvalidated = u.section]

\* The match of apply_changes' loop body.
ApplyAction(st, action) ==
    CASE action.kind = "MoveToValidated" -> MoveToValidated(st, action)
      [] action.kind = "RemoveFromUnvalidated" -> RemoveFromUnvalidated(st, action)
      [] action.kind = "RemoveFromValidated" -> RemoveFromValidated(st, action)
      [] action.kind = "PurgeBelowExpiry" -> PurgeBelowExpiry(st, action)

\* Mutant of ApplyLoop: the loop goes on after unreachable!() instead of
\* ending there.
RECURSIVE ApplyLoop_GoesOnAfterFault(_, _, _, _)
ApplyLoop_GoesOnAfterFault(st, change_set, i, trace) ==
    IF i > Len(change_set)
    THEN [st |-> st, trace |-> trace]
    ELSE LET step == ApplyAction(st, change_set[i])
             next == [step EXCEPT !.fault = st.fault \/ step.fault]
         IN  ApplyLoop_GoesOnAfterFault(next, change_set, i + 1,
                                        Append(trace, next))

\* Mutant of ApplyLoop: the change set is walked from its end.
RECURSIVE ApplyLoop_Backwards(_, _, _, _)
ApplyLoop_Backwards(st, change_set, i, trace) ==
    IF i > Len(change_set) \/ st.fault
    THEN [st |-> st, trace |-> trace]
    ELSE LET next == ApplyAction(st, change_set[Len(change_set) + 1 - i])
         IN  ApplyLoop_Backwards(next, change_set, i + 1, Append(trace, next))

\* The for loop of apply_changes from action i on; trace collects the loop
\* state before the first action and after every action that was run. The loop
\* ends with the change set, or at the action that hits unreachable!().
RECURSIVE ApplyLoop(_, _, _, _)
ApplyLoop(st, change_set, i, trace) ==
    IF i > Len(change_set) \/ st.fault
    THEN [st |-> st, trace |-> trace]
    ELSE LET next == ApplyAction(st, change_set[i])
         IN  ApplyLoop(next, change_set, i + 1, Append(trace, next))

\* Mutant of ChangeResult: changed tells whether the loop produced anything.
ChangeResult_ChangedIfEffect(st, change_set) ==
    [purged |-> st.purged,
     adverts |-> st.adverts,
     changed |-> (st.purged # <<>> \/ st.adverts # <<>>)]

\* The ChangeResult apply_changes returns: changed is computed from the change
\* set before the loop, purged and adverts are what the loop collected.
ChangeResult(st, change_set) ==
    [purged |-> st.purged,
     adverts |-> st.adverts,
     changed |-> ~(change_set = <<>>)]

\* No call is in progress: the caller is free to make the next one.
NoCall == [op |-> "none", arg |-> None, pre |-> None, trace |-> <<>>,
           result |-> None]

\* IngressPoolImpl::new with throttling disabled (both caps usize::MAX); no
\* priority function was asked for.
Init ==
    /\ validated = NewSection
    /\ unvalidated = NewSection
    /\ status = "running"
    /\ last = NoCall
    /\ earlier = NoCall
    /\ sort_ties = KeyOrderTies
    /\ ingress_pool_max_count = usize_MAX
    /\ ingress_pool_max_bytes = usize_MAX
    /\ time_source = 0
    /\ priority_fn = None
    /\ GovernanceIdle

\* The two sections as one value.
Pool == [validated |-> validated, unvalidated |-> unvalidated]

\* Mutant of Insert: a pool that is at its count cap drops the artifact.
Insert_DropsWhenFull(artifact) ==
    LET ingress_pool_obj == artifact.message
        full == SectionSize(validated) + SectionSize(unvalidated)
                    >= ingress_pool_max_count
    IN  /\ status = "running"
        /\ last = NoCall
        /\ unvalidated' =
              IF full THEN unvalidated
              ELSE SectionInsert(unvalidated, IngressMessageIdFrom(ingress_pool_obj),
                       [message |-> ingress_pool_obj,
                        peer_id |-> artifact.peer_id,
                        timestamp |-> artifact.timestamp])
        /\ last' = [op |-> "insert", arg |-> artifact, pre |-> Pool,
                    trace |-> <<>>, result |-> None]
        /\ UNCHANGED <<validated, status, earlier, setup, governance, prioritizer>>

\* Mutant of Insert: an id that is unvalidated already keeps the entry it
\* has.
Insert_KeepsFirstEntry(artifact) ==
    LET ingress_pool_obj == artifact.message
    IN  /\ status = "running"
        /\ last = NoCall
        /\ unvalidated' =
              IF IngressMessageIdFrom(ingress_pool_obj)
                    \in DOMAIN unvalidated.artifacts
              THEN unvalidated
              ELSE SectionInsert(unvalidated,
                       IngressMessageIdFrom(ingress_pool_obj),
                       [message |-> ingress_pool_obj,
                        peer_id |-> artifact.peer_id,
                        timestamp |-> artifact.timestamp])
        /\ last' = [op |-> "insert", arg |-> artifact, pre |-> Pool,
                    trace |-> <<>>, result |-> None]
        /\ UNCHANGED <<validated, status, earlier, setup, governance, prioritizer>>

\* MutablePool::insert
Insert(artifact) ==
    LET ingress_pool_obj == artifact.message
    IN  /\ status = "running"
        /\ last = NoCall
        /\ unvalidated' =
              SectionInsert(unvalidated, IngressMessageIdFrom(ingress_pool_obj),
                  [message |-> ingress_pool_obj,
                   peer_id |-> artifact.peer_id,
                   timestamp |-> artifact.timestamp])
        /\ last' = [op |-> "insert", arg |-> artifact, pre |-> Pool,
                    trace |-> <<>>, result |-> None]
        /\ UNCHANGED <<validated, status, earlier, setup, governance, prioritizer>>

\* Mutant of Remove: the id is taken out of the validated section.
Remove_FromValidated(id) ==
    /\ status = "running"
    /\ last = NoCall
    /\ validated' = SectionRemove(validated, id).section
    /\ last' = [op |-> "remove", arg |-> id, pre |-> Pool,
                trace |-> <<>>, result |-> None]
    /\ UNCHANGED <<unvalidated, status, earlier, setup, governance, prioritizer>>

\* Mutant of Remove: the id is taken out of both sections.
Remove_BothSections(id) ==
    /\ status = "running"
    /\ last = NoCall
    /\ unvalidated' = SectionRemove(unvalidated, id).section
    /\ validated' = SectionRemove(validated, id).section
    /\ last' = [op |-> "remove", arg |-> id, pre |-> Pool,
                trace |-> <<>>, result |-> None]
    /\ UNCHANGED <<status, earlier, setup, governance, prioritizer>>

\* MutablePool::remove
Remove(id) ==
    /\ status = "running"
    /\ last = NoCall
    /\ unvalidated' = SectionRemove(unvalidated, id).section
    /\ last' = [op |-> "remove", arg |-> id, pre |-> Pool,
                trace |-> <<>>, result |-> None]
    /\ UNCHANGED <<validated, status, earlier, setup, governance, prioritizer>>

\* MutablePool::apply_changes. When the loop hits unreachable!() the call
\* panics: there is no ChangeResult, and the sections stay as the loop left
\* them.
ApplyChanges(change_set) ==
    LET st0 == [validated |-> validated, unvalidated |-> unvalidated,
                adverts |-> <<>>, purged |-> <<>>, fault |-> FALSE]
        run == ApplyLoop(st0, change_set, 1, <<st0>>)
    IN  /\ status = "running"
        /\ last = NoCall
        /\ validated' = run.st.validated
        /\ unvalidated' = run.st.unvalidated
        /\ status' = IF run.st.fault THEN "panicked" ELSE "running"
        /\ last' = [op |-> "apply_changes", arg |-> change_set, pre |-> Pool,
                    trace |-> run.trace,
                    result |-> IF run.st.fault THEN None
                               ELSE Some(ChangeResult(run.st, change_set))]
        /\ UNCHANGED <<earlier, setup, governance, prioritizer>>

\* A call that reads the pool: the sections, the configuration and the
\* prioritizer stay, the caller holds the result.
Read(op, arg, result) ==
    /\ status = "running"
    /\ last = NoCall
    /\ last' = [op |-> op, arg |-> arg, pre |-> Pool, trace |-> <<>>,
                result |-> Some(result)]
    /\ UNCHANGED <<validated, unvalidated, status, earlier, setup, governance, prioritizer>>

\* Mutant of Contains: only the validated section is looked at.
Contains_ValidatedOnly(pool, id) == SectionExists(pool.validated, id)

\* ValidatedPoolReader::contains, as a function of the pool.
Contains(pool, id) ==
    SectionExists(pool.unvalidated, id) \/ SectionExists(pool.validated, id)

\* A call of ValidatedPoolReader::contains
CallContains(id) == Read("contains", id, Contains(Pool, id))

\* IngressPoolSection::get
SectionGet(section, message_id) ==
    IF message_id \in DOMAIN section.artifacts
    THEN Some(section.artifacts[message_id])
    ELSE None

\* Mutant of GetValidatedByIdentifier: an id that is not validated is looked
\* up in the unvalidated section.
GetValidatedByIdentifier_EitherSection(pool, id) ==
    LET v == SectionGet(pool.validated, id)
        u == SectionGet(pool.unvalidated, id)
    IN  IF v # None THEN Some(v[1].msg)
        ELSE IF u # None THEN Some(u[1].message)
        ELSE None

\* ValidatedPoolReader::get_validated_by_identifier, as a function of the
\* pool: the signed ingress of the validated artifact under id, if any.
GetValidatedByIdentifier(pool, id) ==
    LET a == SectionGet(pool.validated, id)
    IN  IF a # None THEN Some(a[1].msg) ELSE None

\* A call of ValidatedPoolReader::get_validated_by_identifier
CallGetValidatedByIdentifier(id) ==
    Read("get_validated_by_identifier", id, GetValidatedByIdentifier(Pool, id))

\* Height filters a caller passes.
Heights == {0, 1}

\* Mutant of GetAllValidatedByFilter: the validated messages are given, in
\* key order.
GetAllValidatedByFilter_AllValidated(pool, filter) ==
    LET order == SortedKeys(DOMAIN pool.validated.artifacts)
    IN  [i \in 1..Len(order) |-> pool.validated.artifacts[order[i]].msg]

\* ValidatedPoolReader::get_all_validated_by_filter, as a function of the
\* pool: the items of the iterator, which is made from an empty vector.
GetAllValidatedByFilter(pool, filter) == <<>>

\* A call of ValidatedPoolReader::get_all_validated_by_filter
CallGetAllValidatedByFilter(filter) ==
    Read("get_all_validated_by_filter", filter,
         GetAllValidatedByFilter(Pool, filter))

\* The call returns to the pool's single owner, which takes the result (the
\* ChangeResult of apply_changes) and is free to make the next call. A call
\* that panicked never returns.
Return ==
    /\ status = "running"
    /\ last # NoCall
    /\ last' = NoCall
    /\ UNCHANGED <<validated, unvalidated, status, earlier, setup, governance, prioritizer>>

Next ==
    \/ Return
    \/ \E artifact \in UnvalidatedArtifacts : Insert(artifact)
    \/ \E id \in IngressMessageIds : Remove(id)
    \/ \E change_set \in ChangeSets : ApplyChanges(change_set)
    \/ \E id \in IngressMessageIds : CallContains(id)
    \/ \E id \in IngressMessageIds : CallGetValidatedByIdentifier(id)
    \/ \E filter \in Heights : CallGetAllValidatedByFilter(filter)

Spec == Init /\ [][Next]_vars

\* Change sets of at most one action.
ShortChangeSets == {change_set \in ChangeSets : Len(change_set) <= 1}

\* The call returns, and the owner keeps what it called and what it got
\* while it makes its next call, as a test does between two of its steps.
ReturnKeeping ==
    /\ status = "running"
    /\ last # NoCall
    /\ last' = NoCall
    /\ earlier' = last
    /\ UNCHANGED <<validated, unvalidated, status, setup, governance, prioritizer>>

NextPair ==
    \/ ReturnKeeping
    \/ \E artifact \in UnvalidatedArtifacts : Insert(artifact)
    \/ \E id \in IngressMessageIds : Remove(id)
    \/ \E change_set \in ShortChangeSets : ApplyChanges(change_set)
    \/ \E id \in IngressMessageIds : CallContains(id)

\* The pool under an owner that looks at two calls in a row.
SpecPair == Init /\ [][NextPair]_vars

\* What the owner notes of a message it follows from its arrival: the id,
\* the artifact of the insert that brought the id into the pool (pre), and
\* the artifact of the latest of the inserts of the id that came after it
\* (trace, empty when there was none).
Arrival(id, first, again) ==
    [op |-> "arrival", arg |-> id, pre |-> first, trace |-> again,
     result |-> None]

\* The call returns, and the owner brings its note up to date: an insert of
\* an id that was in neither section is an arrival, which it follows from
\* now on; an insert of the id it follows is the latest one; when the id it
\* follows is in neither section any more, the note is dropped.
ReturnFollowing ==
    /\ status = "running"
    /\ last # NoCall
    /\ last' = NoCall
    /\ earlier' =
          IF last.op = "insert"
          THEN LET id == IngressMessageIdFrom(last.arg.message)
               IN  IF ~Contains(last.pre, id)
                   THEN Arrival(id, last.arg, <<>>)
                   ELSE IF earlier # NoCall /\ earlier.arg = id
                        THEN Arrival(id, earlier.pre, <<last.arg>>)
                        ELSE earlier
          ELSE IF earlier # NoCall /\ ~Contains(Pool, earlier.arg)
               THEN NoCall
               ELSE earlier
    /\ UNCHANGED <<validated, unvalidated, status, setup, governance, prioritizer>>

NextArrival ==
    \/ ReturnFollowing
    \/ \E artifact \in UnvalidatedArtifacts : Insert(artifact)
    \/ \E id \in IngressMessageIds : Remove(id)
    \/ \E change_set \in ShortChangeSets : ApplyChanges(change_set)

\* The pool under an owner that follows a message from its arrival.
SpecArrival == Init /\ [][NextArrival]_vars

\* ------------------------------------------- IngressPoolThrottler, prioritizer
\* Mutant of ExceedsThreshold: the caps are exclusive.
ExceedsThreshold_Exclusive(pool, max_count, max_bytes) ==
    LET ingress_count == SectionSize(pool.validated) + SectionSize(pool.unvalidated)
        ingress_bytes == pool.validated.byte_size + pool.unvalidated.byte_size
    IN  ingress_count > max_count \/ ingress_bytes > max_bytes

\* Mutant of ExceedsThreshold: only the unvalidated section counts.
ExceedsThreshold_UnvalidatedOnly(pool, max_count, max_bytes) ==
    \/ SectionSize(pool.unvalidated) >= max_count
    \/ pool.unvalidated.byte_size >= max_bytes

\* IngressPoolImpl::exceeds_threshold, as a function of the pool and its caps.
ExceedsThreshold(pool, max_count, max_bytes) ==
    LET ingress_count == SectionSize(pool.validated) + SectionSize(pool.unvalidated)
        ingress_bytes == pool.validated.byte_size + pool.unvalidated.byte_size
    IN  ingress_count >= max_count \/ ingress_bytes >= max_bytes

\* exceeds_threshold of the pool as it is.
Exceeds == ExceedsThreshold(Pool, ingress_pool_max_count, ingress_pool_max_bytes)

\* A call of IngressPoolThrottler::exceeds_threshold
CallExceedsThreshold == Read("exceeds_threshold", None, Exceeds)

\* The closure get_priority_function returns: the one that drops everything,
\* or the one that asks the time source on every call. made_at records the
\* time of its production.
PriorityFn(drop_all, made_at) == [drop_all |-> drop_all, made_at |-> made_at]

\* PriorityFnAndFilterProducer::get_priority_function
GetPriorityFunction ==
    /\ status = "running"
    /\ last = NoCall
    /\ priority_fn' = Some(PriorityFn(Exceeds, time_source))
    /\ last' = [op |-> "get_priority_function", arg |-> None, pre |-> Pool,
                trace |-> <<>>, result |-> None]
    /\ UNCHANGED <<validated, unvalidated, status, earlier, setup, governance, time_source>>

\* Mutant of Priority: the closure looks at the pool again instead of keeping
\* the decision made at its production.
Priority_Unfrozen(fn, id, start, exceeds) ==
    IF exceeds THEN "Drop"
    ELSE IF start <= id[1] /\ id[1] <= start + MAX_INGRESS_TTL
         THEN "Later" ELSE "Drop"

\* Mutant of Priority: the window starts at the time the closure was made.
Priority_WindowAtProduction(fn, id, start, exceeds) ==
    IF fn.drop_all THEN "Drop"
    ELSE IF fn.made_at <= id[1] /\ id[1] <= fn.made_at + MAX_INGRESS_TTL
         THEN "Later" ELSE "Drop"

\* Mutant of Priority: the closure made below the threshold drops all the
\* same while the pool exceeds it.
Priority_ChecksPoolToo(fn, id, start, exceeds) ==
    IF fn.drop_all \/ exceeds THEN "Drop"
    ELSE IF start <= id[1] /\ id[1] <= start + MAX_INGRESS_TTL
         THEN "Later" ELSE "Drop"

\* The priority a closure gives to an id when the time source gives start
\* and the pool's exceeds_threshold would give exceeds (the closure has no
\* access to the pool).
Priority(fn, id, start, exceeds) ==
    IF fn.drop_all THEN "Drop"
    ELSE IF start <= id[1] /\ id[1] <= start + MAX_INGRESS_TTL
         THEN "Later" ELSE "Drop"

\* A call of the priority function produced last. The trace of the call is
\* the time the closure got from the time source, and the closure.
CallPriorityFn(id) ==
    /\ priority_fn # None
    /\ status = "running"
    /\ last = NoCall
    /\ last' = [op |-> "priority_fn", arg |-> id, pre |-> Pool,
                trace |-> <<time_source, priority_fn[1]>>,
                result |-> Some(Priority(priority_fn[1], id, time_source,
                                         Exceeds))]
    /\ UNCHANGED <<validated, unvalidated, status, earlier, setup, governance, prioritizer>>

\* The time source moves on.
AdvanceTime ==
    /\ status = "running"
    /\ last = NoCall
    /\ time_source < MaxTime
    /\ time_source' = time_source + 1
    /\ UNCHANGED <<validated, unvalidated, status, last, earlier, setup, governance, priority_fn>>

\* IngressPoolImpl::new with the caps of the configuration, and a prioritizer
\* over a time source.
InitThrottle ==
    /\ validated = NewSection
    /\ unvalidated = NewSection
    /\ status = "running"
    /\ last = NoCall
    /\ earlier = NoCall
    /\ sort_ties = KeyOrderTies
    /\ ingress_pool_max_count \in MaxCounts
    /\ ingress_pool_max_bytes \in MaxBytes
    /\ time_source = 0
    /\ priority_fn = None
    /\ GovernanceIdle

NextThrottle ==
    \/ Return
    \/ \E artifact \in UnvalidatedArtifacts : Insert(artifact)
    \/ \E id \in IngressMessageIds : Remove(id)
    \/ \E change_set \in ShortChangeSets : ApplyChanges(change_set)
    \/ CallExceedsThreshold
    \/ GetPriorityFunction
    \/ \E id \in IngressMessageIds : CallPriorityFn(id)
    \/ AdvanceTime

\* The pool with its throttler and prioritizer.
SpecThrottle == InitThrottle /\ [][NextThrottle]_vars

\* ------------------------------- the validated section and IngressPoolSelect
\* The validated section is filled and emptied through IngressPoolSection's
\* own functions, with the messages of SectionIds.

\* ValidatedIngressArtifact: a message and the time it arrived at.
ValidatedArtifacts ==
    {a \in [msg : [expiry : Expiries, message_id : SectionHashes,
                   byte_size : ByteSizes],
            timestamp : Times] :
        a.timestamp + 1 = a.msg.byte_size}

\* The values of a map under a sequence of its keys.
RECURSIVE ValuesAt(_, _)
ValuesAt(map, keys) ==
    IF keys = <<>> THEN <<>>
    ELSE <<map[Head(keys)]>> \o ValuesAt(map, Tail(keys))

\* Mutant of GetAllByExpiryRange: the range starts at (start, 0xff...ff).
GetAllByExpiryRange_StartsAtMaxHash(section, start, end) ==
    IF end < start THEN <<>>
    ELSE LET lo == <<start, MaxHash>>
             hi == <<end, MaxHash>>
             order == SortedKeys({k \in DOMAIN section.artifacts :
                                     ~IdLess(k, lo) /\ ~IdLess(hi, k)})
         IN  ValuesAt(section.artifacts, order)

\* Mutant of GetAllByExpiryRange: the range ends at (end, 0...0).
GetAllByExpiryRange_EndsAtZeroHash(section, start, end) ==
    IF end < start THEN <<>>
    ELSE LET lo == <<start, ZeroHash>>
             hi == <<end, ZeroHash>>
             order == SortedKeys({k \in DOMAIN section.artifacts :
                                     ~IdLess(k, lo) /\ ~IdLess(hi, k)})
         IN  ValuesAt(section.artifacts, order)

\* PoolSection::get_all_by_expiry_range: the artifacts under the keys from
\* (start, 0...0) to (end, 0xff...ff), in key order.
GetAllByExpiryRange(section, start, end) ==
    IF end < start THEN <<>>
    ELSE LET lo == <<start, ZeroHash>>
             hi == <<end, MaxHash>>
             order == SortedKeys({k \in DOMAIN section.artifacts :
                                     ~IdLess(k, lo) /\ ~IdLess(hi, k)})
         IN  ValuesAt(section.artifacts, order)

\* The orders a sequence of n elements can be put in, for n = 1, 2, ... up to
\* a length.
RECURSIVE OrdersUpTo(_)
OrdersUpTo(n) ==
    IF n = 0 THEN <<>>
    ELSE Append(OrdersUpTo(n - 1),
                {p \in [1..n -> 1..n] : \A i, j \in 1..n : p[i] = p[j] => i = j})
AllOrders == OrdersUpTo(Cardinality(SectionIds))
Orders(n) == IF n = 0 THEN {<<>>} ELSE AllOrders[n]

\* A sequence put in an order, from position i on.
RECURSIVE InOrder(_, _, _)
InOrder(seq, p, i) ==
    IF i > Len(seq) THEN <<>>
    ELSE <<seq[p[i]]>> \o InOrder(seq, p, i + 1)

\* Mutant of SortUnstableByTimestamp: the artifacts stay in key order.
SortUnstableByTimestamp_KeepsKeyOrder(artifacts) == {artifacts}

\* Mutant of SortUnstableByTimestamp: the order of artifacts with equal
\* timestamps is free in every call.
SortUnstableByTimestamp_AnyTieOrder(artifacts) ==
    LET n == Len(artifacts)
    IN  {InOrder(artifacts, p, 1) : p \in
            {q \in Orders(n) :
                \A i, j \in 1..n :
                    i < j => artifacts[q[i]].timestamp <= artifacts[q[j]].timestamp}}

\* One artifact comes before another in the sorted vector: by timestamp, and
\* for equal timestamps as the build resolves the tie.
SortsBefore(a, b) ==
    \/ a.timestamp < b.timestamp
    \/ /\ a.timestamp = b.timestamp
       /\ sort_ties[IngressMessageIdFrom(a.msg)]
             < sort_ties[IngressMessageIdFrom(b.msg)]

\* artifacts.sort_unstable_by_key(|artifact| artifact.timestamp): the results
\* the sort can give. It orders by timestamp; the order of artifacts with
\* equal timestamps is the build's, the same in every call.
SortUnstableByTimestamp(artifacts) ==
    LET n == Len(artifacts)
    IN  {InOrder(artifacts, p, 1) : p \in
            {q \in Orders(n) :
                \A i, j \in 1..n :
                    i < j => SortsBefore(artifacts[q[i]], artifacts[q[j]])}}

\* SelectResult, without the message of Selected: the selectors hand back the
\* message they were offered.
SelectResults == {"Selected", "Skip", "Abort"}

\* A selector (FnMut): its answer to its first, second, ... call. It is not
\* called again after Abort.
Selectors ==
    {f \in [1..Cardinality(SectionIds) -> SelectResults] :
        \A i \in 1..(Cardinality(SectionIds) - 1) :
            f[i] = "Abort" => f[i + 1] = "Abort"}

\* Mutant of SelectLoop: Abort is taken as Skip, the loop goes on.
RECURSIVE SelectLoop_AbortSkips(_, _, _, _)
SelectLoop_AbortSkips(artifacts, f, i, collected) ==
    IF i > Len(artifacts)
    THEN [collected |-> collected, offered |-> artifacts]
    ELSE IF f[i] = "Selected"
         THEN SelectLoop_AbortSkips(artifacts, f, i + 1,
                                    Append(collected, artifacts[i].msg))
         ELSE SelectLoop_AbortSkips(artifacts, f, i + 1, collected)

\* The loop of select_validated from artifact i on: what was collected, and
\* the artifacts the selector was called with.
RECURSIVE SelectLoop(_, _, _, _)
SelectLoop(artifacts, f, i, collected) ==
    IF i > Len(artifacts)
    THEN [collected |-> collected, offered |-> artifacts]
    ELSE CASE f[i] = "Selected" ->
                SelectLoop(artifacts, f, i + 1, Append(collected, artifacts[i].msg))
           [] f[i] = "Skip" -> SelectLoop(artifacts, f, i + 1, collected)
           [] f[i] = "Abort" ->
                [collected |-> collected, offered |-> SubSeq(artifacts, 1, i)]

\* Mutant of SelectValidated: the artifacts in the range are taken out of the
\* validated section.
SelectValidated_TakesRange(start, end, f) ==
    /\ status = "running"
    /\ last = NoCall
    /\ \E artifacts \in SortUnstableByTimestamp(
                            GetAllByExpiryRange(validated, start, end)) :
          last' = [op |-> "select_validated",
                   arg |-> [start |-> start, end |-> end, f |-> f],
                   pre |-> Pool, trace |-> <<>>,
                   result |-> Some(SelectLoop(artifacts, f, 1, <<>>))]
    /\ validated' = SectionPurgeBelow(validated, end + 1).section
    /\ UNCHANGED <<unvalidated, status, earlier, setup, governance, prioritizer>>

\* IngressPoolSelect::select_validated
SelectValidated(start, end, f) ==
    /\ last = NoCall
    /\ \E artifacts \in SortUnstableByTimestamp(
                            GetAllByExpiryRange(validated, start, end)) :
          Read("select_validated", [start |-> start, end |-> end, f |-> f],
               SelectLoop(artifacts, f, 1, <<>>))

\* The bounds of the ranges asked for: the expiries, and times before and
\* after all of them.
RangeBounds == Expiries \cup {0, 3}

\* A call of PoolSection::get_all_by_expiry_range on the validated section
ValidatedGetAllByExpiryRange(start, end) ==
    Read("get_all_by_expiry_range", [start |-> start, end |-> end],
         GetAllByExpiryRange(validated, start, end))

\* A call on the validated section changed it and handed back a result.
OnValidated(op, arg, section, result) ==
    /\ status = "running"
    /\ last = NoCall
    /\ validated' = section
    /\ last' = [op |-> op, arg |-> arg, pre |-> Pool, trace |-> <<>>,
                result |-> result]
    /\ UNCHANGED <<unvalidated, status, earlier, setup, governance, prioritizer>>

\* IngressPoolSection::insert on the validated section
ValidatedInsert(artifact) ==
    OnValidated("section_insert", artifact,
                SectionInsert(validated, IngressMessageIdFrom(artifact.msg), artifact),
                None)

\* IngressPoolSection::remove on the validated section
ValidatedRemove(id) ==
    LET r == SectionRemove(validated, id)
    IN  OnValidated("section_remove", id, r.section, r.removed)

\* IngressPoolSection::purge_below on the validated section
ValidatedPurgeBelow(expiry) ==
    LET r == SectionPurgeBelow(validated, expiry)
    IN  OnValidated("purge_below", expiry, r.section, Some(r.purged))

\* Unvalidated sections the pool has beside the validated one: none, or one
\* with a message at each expiry.
UnvalidatedSections ==
    {NewSection,
     SectionInsert(
         SectionInsert(NewSection, <<1, ZeroHash>>,
             [message |-> [expiry |-> 1, message_id |-> ZeroHash, byte_size |-> 1],
              peer_id |-> 1, timestamp |-> 0]),
         <<2, MaxHash>>,
         [message |-> [expiry |-> 2, message_id |-> MaxHash, byte_size |-> 2],
          peer_id |-> 1, timestamp |-> 1])}

InitSection ==
    /\ validated = NewSection
    /\ unvalidated \in UnvalidatedSections
    /\ status = "running"
    /\ last = NoCall
    /\ earlier = NoCall
    /\ sort_ties \in TieOrders
    /\ ingress_pool_max_count = usize_MAX
    /\ ingress_pool_max_bytes = usize_MAX
    /\ time_source = 0
    /\ priority_fn = None
    /\ GovernanceIdle

NextSection ==
    \/ Return
    \/ \E artifact \in ValidatedArtifacts : ValidatedInsert(artifact)
    \/ \E id \in SectionIds : ValidatedRemove(id)
    \/ \E expiry \in Expiries \cup {3} : ValidatedPurgeBelow(expiry)
    \/ \E start, end \in Expiries, f \in Selectors : SelectValidated(start, end, f)
    \/ \E start, end \in RangeBounds : ValidatedGetAllByExpiryRange(start, end)

\* The validated section with the selection from it.
SpecSection == InitSection /\ [][NextSection]_vars

\* The selector that selects every message it is offered.
AlwaysSelect == [i \in 1..Cardinality(SectionIds) |-> "Selected"]

\* A validated artifact of (timestamp + 1) bytes.
ValidatedAt(expiry, hash, timestamp) ==
    [msg |-> [expiry |-> expiry, message_id |-> hash,
              byte_size |-> timestamp + 1],
     timestamp |-> timestamp]

\* A validated section with three messages that arrived at the same time and
\* one, of the latest key, that arrived before them.
TiedSection ==
    SectionInsert(
        SectionInsert(
            SectionInsert(
                SectionInsert(NewSection, <<1, ZeroHash>>,
                              ValidatedAt(1, ZeroHash, 1)),
                <<1, MaxHash>>, ValidatedAt(1, MaxHash, 1)),
            <<2, ZeroHash>>, ValidatedAt(2, ZeroHash, 1)),
        <<2, MaxHash>>, ValidatedAt(2, MaxHash, 0))

\* Selectors that select all, that skip, and that abort at the third call.
TieSelectors ==
    {AlwaysSelect,
     <<"Skip", "Selected", "Selected", "Selected">>,
     <<"Selected", "Selected", "Abort", "Abort">>}

InitTies ==
    /\ validated = TiedSection
    /\ unvalidated = NewSection
    /\ status = "running"
    /\ last = NoCall
    /\ earlier = NoCall
    /\ sort_ties \in TieOrders
    /\ ingress_pool_max_count = usize_MAX
    /\ ingress_pool_max_bytes = usize_MAX
    /\ time_source = 0
    /\ priority_fn = None
    /\ GovernanceIdle

NextTies ==
    \/ ReturnKeeping
    \/ \E id \in SectionIds : ValidatedRemove(id)
    \/ \E start, end \in Expiries, f \in TieSelectors :
          SelectValidated(start, end, f)

\* Selections from a validated section with ties, under an owner that looks
\* at two calls in a row.
SpecTies == InitTies /\ [][NextTies]_vars

\* The artifacts a peer sends at the start, one for each id.
GossipedArtifacts ==
    {artifact \in UnvalidatedArtifacts :
        artifact.peer_id # node_id /\ artifact.timestamp = 0}

\* The call returns, and the owner keeps the call if it was one of the
\* priority function.
ReturnKeepingPriority ==
    /\ status = "running"
    /\ last # NoCall
    /\ last' = NoCall
    /\ earlier' = IF last.op = "priority_fn" THEN last ELSE earlier
    /\ UNCHANGED <<validated, unvalidated, status, setup, governance, prioritizer>>

NextPriority ==
    \/ ReturnKeepingPriority
    \/ \E artifact \in GossipedArtifacts : Insert(artifact)
    \/ \E id \in IngressMessageIds : Remove(id)
    \/ GetPriorityFunction
    \/ \E id \in IngressMessageIds : CallPriorityFn(id)
    \/ AdvanceTime

\* The prioritizer, under an owner that compares the answers of the priority
\* function while the pool fills and empties and the time goes on.
SpecPriority == InitThrottle /\ [][NextPriority]_vars

NextReads ==
    \/ Return
    \/ \E artifact \in UnvalidatedArtifacts : Insert(artifact)
    \/ \E change_set \in ShortChangeSets : ApplyChanges(change_set)
    \/ \E id \in IngressMessageIds : CallContains(id)
    \/ \E id \in IngressMessageIds : CallGetValidatedByIdentifier(id)
    \/ \E filter \in Heights : CallGetAllValidatedByFilter(filter)
    \/ \E start, end \in Expiries, f \in TieSelectors :
          SelectValidated(start, end, f)
    \/ CallExceedsThreshold
    \/ GetPriorityFunction
    \/ \E id \in IngressMessageIds : CallPriorityFn(id)

\* The pool with all that reads it: its readers, the selection, the
\* throttler and the prioritizer.
SpecReads == InitThrottle /\ [][NextReads]_vars

\* Change sets of one PurgeBelowExpiry.
PurgeChangeSets == {<<action>> : action \in PurgeBelowExpiryActions}

InitPurge ==
    /\ validated = TiedSection
    /\ unvalidated \in UnvalidatedSections
    /\ status = "running"
    /\ last = NoCall
    /\ earlier = NoCall
    /\ sort_ties = KeyOrderTies
    /\ ingress_pool_max_count = usize_MAX
    /\ ingress_pool_max_bytes = usize_MAX
    /\ time_source = 0
    /\ priority_fn = None
    /\ GovernanceIdle

NextPurge ==
    \/ Return
    \/ \E id \in SectionIds : ValidatedRemove(id)
    \/ \E expiry \in Expiries \cup {3} : ValidatedPurgeBelow(expiry)
    \/ \E change_set \in PurgeChangeSets : ApplyChanges(change_set)

\* Purges of a pool whose sections hold messages of both content hashes at
\* one expiry: by purge_below itself, and by apply_changes, which drops the
\* iterator of the unvalidated section.
SpecPurge == InitPurge /\ [][NextPurge]_vars

\* ---------------------------------------------------------------- NeuronStore
NeuronIds == {1, 2}

\* How long a neuron with nothing at stake must have been dissolved to count
\* as inactive (14 days).
DISSOLVED_FOR_INACTIVE == 1

\* What of a neuron decides whether it is inactive: what it has at stake
\* (stake, maturity, its part in the neurons' fund) and when it was dissolved.
NeuronContents == [stake : {0, 1}, when_dissolved : {None, Some(1)}]

Neurons == [id : NeuronIds, stake : {0, 1}, when_dissolved : {None, Some(1)}]

\* Neuron::is_inactive: nothing at stake, and dissolved long enough ago; an
\* inactive neuron stays so as the time goes on.
IsInactive(neuron, now) ==
    /\ neuron.stake = 0
    /\ neuron.when_dissolved # None
    /\ neuron.when_dissolved[1] + DISSOLVED_FOR_INACTIVE <= now

\* The time warps the governance can be given.
TimeWarps == {0, 1}

\* NeuronStore::now: the time of the system, warped.
Now == clock.time + clock.time_warp

Ok(value) == <<"Ok", value>>
Err(error) == <<"Err", error>>

\* StableNeuronStore::create, update and delete: the store afterwards and
\* the result.
StableCreate(store, neuron) ==
    IF neuron.id \in DOMAIN store
    THEN [store |-> store, result |-> Err(<<"NeuronAlreadyExists", neuron.id>>)]
    ELSE [store |-> MapInsert(store, neuron.id, neuron), result |-> Ok(None)]

StableUpdate(store, neuron) ==
    IF neuron.id \notin DOMAIN store
    THEN [store |-> store, result |-> Err(<<"NeuronNotFound", neuron.id>>)]
    ELSE [store |-> MapInsert(store, neuron.id, neuron), result |-> Ok(None)]

StableDelete(store, neuron_id) ==
    IF neuron_id \notin DOMAIN store
    THEN [store |-> store, result |-> Err(<<"NeuronNotFound", neuron_id>>)]
    ELSE [store |-> MapRemove(store, neuron_id), result |-> Ok(None)]

\* The neurons with all that is kept about them, as one value.
Stored == [heap_neurons |-> heap_neurons,
           stable_neuron_store |-> stable_neuron_store,
           topic_followee_index |-> topic_followee_index,
           stable_neuron_indexes |-> stable_neuron_indexes]

\* NeuronStore::contains.
NeuronStoreContains(store, neuron_id) ==
    LET in_heap == neuron_id \in DOMAIN store.heap_neurons
        in_stable == neuron_id \in DOMAIN store.stable_neuron_store
    IN  in_heap \/ in_stable

\* NeuronStore::len.
NeuronStoreLen(store) ==
    LET heap_len == Cardinality(DOMAIN store.heap_neurons)
        stable_len == Cardinality(DOMAIN store.stable_neuron_store)
    IN  IF ~only_in_stable_memory THEN heap_len ELSE heap_len + stable_len

\* NeuronStore::add_neuron_to_indexes, remove_neuron_from_indexes and
\* update_neuron_indexes: an index is known by the neurons it has entries of.
AddNeuronToIndexes(store, neuron) ==
    [store EXCEPT !.stable_neuron_indexes = @ \cup {neuron},
                  !.topic_followee_index = @ \cup {neuron}]

RemoveNeuronFromIndexes(store, neuron) ==
    [store EXCEPT !.stable_neuron_indexes = @ \ {neuron},
                  !.topic_followee_index = @ \ {neuron}]

UpdateNeuronIndexes(store, old_neuron, new_neuron) ==
    [store EXCEPT !.stable_neuron_indexes = (@ \ {old_neuron}) \cup {new_neuron},
                  !.topic_followee_index = (@ \ {old_neuron}) \cup {new_neuron}]

\* Mutant of AddNeuronTo: a neuron of a known id replaces the one stored.
AddNeuronTo_Overwrites(store, neuron) ==
    LET placed ==
            IF IsInactive(neuron, Now)
            THEN [store EXCEPT
                    !.stable_neuron_store = MapInsert(@, neuron.id, neuron),
                    !.heap_neurons = IF ~only_in_stable_memory
                                     THEN MapInsert(@, neuron.id, neuron) ELSE @]
            ELSE [store EXCEPT !.heap_neurons = MapInsert(@, neuron.id, neuron)]
    IN  [store |-> AddNeuronToIndexes(placed, neuron), result |-> Ok(neuron.id)]

\* NeuronStore::add_neuron: what is stored afterwards, and the result.
AddNeuronTo(store, neuron) ==
    LET neuron_id == neuron.id
        create == StableCreate(store.stable_neuron_store, neuron)
    IN  IF NeuronStoreContains(store, neuron_id)
        THEN [store |-> store,
              result |-> Err(<<"NeuronAlreadyExists", neuron_id>>)]
        ELSE IF IsInactive(neuron, Now)
        THEN IF create.result[1] = "Err"
             THEN [store |-> store, result |-> create.result]
             ELSE [store |-> AddNeuronToIndexes(
                      [store EXCEPT
                         !.stable_neuron_store = create.store,
                         !.heap_neurons =
                            IF ~only_in_stable_memory
                            THEN MapInsert(@, neuron_id, neuron) ELSE @],
                      neuron),
                   result |-> Ok(neuron_id)]
        ELSE [store |-> AddNeuronToIndexes(
                 [store EXCEPT
                    !.heap_neurons = MapInsert(@, neuron_id, neuron)],
                 neuron),
              result |-> Ok(neuron_id)]

\* NeuronStore::load_neuron: the neuron and its primary storage location.
LoadNeuron(store, neuron_id) ==
    LET heap == store.heap_neurons
        stable == store.stable_neuron_store
    IN  IF neuron_id \in DOMAIN heap /\ ~IsInactive(heap[neuron_id], Now)
        THEN Ok(<<heap[neuron_id], "Heap">>)
        ELSE IF neuron_id \in DOMAIN stable
        THEN Ok(<<stable[neuron_id], "Stable">>)
        ELSE IF neuron_id \in DOMAIN heap
        THEN Ok(<<heap[neuron_id], "Heap">>)
        ELSE Err(<<"NeuronNotFound", neuron_id>>)

\* NeuronStore::remove_neuron: what is stored afterwards.
RemoveNeuronFrom(store, neuron_id) ==
    LET load_neuron_result == LoadNeuron(store, neuron_id)
        neuron_to_remove == load_neuron_result[2][1]
        primary_location == load_neuron_result[2][2]
        removed ==
            IF primary_location = "Heap"
            THEN [store EXCEPT !.heap_neurons = MapRemove(@, neuron_id)]
            ELSE [store EXCEPT
                    !.stable_neuron_store = StableDelete(@, neuron_id).store,
                    !.heap_neurons = IF ~only_in_stable_memory
                                     THEN MapRemove(@, neuron_id) ELSE @]
    IN  IF load_neuron_result[1] = "Err" THEN store
        ELSE RemoveNeuronFromIndexes(removed, neuron_to_remove)

\* NeuronStore::update_neuron: what is stored afterwards, and the result.
UpdateNeuron(store, neuron_id, neuron, previous_location, is_neuron_changed) ==
    LET target_location ==
            IF IsInactive(neuron, Now) THEN "Stable" ELSE "Heap"
        create == StableCreate(store.stable_neuron_store, neuron)
        delete == StableDelete(store.stable_neuron_store, neuron_id)
        update == StableUpdate(store.stable_neuron_store, neuron)
        inserted == [store EXCEPT
                       !.heap_neurons = MapInsert(@, neuron_id, neuron)]
    IN  CASE previous_location = "Heap" /\ target_location = "Heap" ->
               [store |-> IF is_neuron_changed THEN inserted ELSE store,
                result |-> Ok(None)]
          [] previous_location = "Heap" /\ target_location = "Stable" ->
               IF create.result[1] = "Err"
               THEN [store |-> store, result |-> create.result]
               ELSE [store |->
                        [store EXCEPT
                           !.stable_neuron_store = create.store,
                           !.heap_neurons =
                              IF only_in_stable_memory
                              THEN MapRemove(@, neuron_id)
                              ELSE MapInsert(@, neuron_id, neuron)],
                     result |-> Ok(None)]
          [] previous_location = "Stable" /\ target_location = "Heap" ->
               [store |-> [inserted EXCEPT !.stable_neuron_store = delete.store],
                result |-> delete.result]
          [] previous_location = "Stable" /\ target_location = "Stable" ->
               IF ~is_neuron_changed
               THEN [store |-> store, result |-> Ok(None)]
               ELSE IF update.result[1] = "Err"
               THEN [store |-> store, result |-> update.result]
               ELSE [store |->
                        [store EXCEPT
                           !.stable_neuron_store = update.store,
                           !.heap_neurons =
                              IF ~only_in_stable_memory
                              THEN MapInsert(@, neuron_id, neuron) ELSE @],
                     result |-> Ok(None)]

\* NeuronStore::with_neuron_mut with an f that gives the neuron the contents
\* change: what is stored afterwards, and the result.
WithNeuronMutIn(store, neuron_id, change) ==
    LET load == LoadNeuron(store, neuron_id)
        old_neuron == load[2][1]
        location == load[2][2]
        new_neuron == [id |-> old_neuron.id, stake |-> change.stake,
                       when_dissolved |-> change.when_dissolved]
        updated == UpdateNeuron(store, neuron_id, new_neuron, location,
                                new_neuron # old_neuron)
    IN  IF load[1] = "Err" THEN [store |-> store, result |-> load]
        ELSE IF updated.result[1] = "Err" THEN updated
        ELSE [store |-> UpdateNeuronIndexes(updated.store, old_neuron,
                                            new_neuron),
              result |-> Ok(None)]

\* A call on the neuron store ran: what is stored now, and the call as its
\* caller holds it.
Stores(op, arg, store, result) ==
    /\ heap_neurons' = store.heap_neurons
    /\ stable_neuron_store' = store.stable_neuron_store
    /\ topic_followee_index' = store.topic_followee_index
    /\ stable_neuron_indexes' = store.stable_neuron_indexes
    /\ last' = [op |-> op, arg |-> arg, pre |-> Stored, trace |-> <<Now>>,
                result |-> result]
    /\ UNCHANGED <<validated, unvalidated, status, earlier, setup, prioritizer,
                   clock, only_in_stable_memory, upgrades_memory>>

AddNeuron(neuron) ==
    /\ status = "running"
    /\ last = NoCall
    /\ LET added == AddNeuronTo(Stored, neuron)
       IN  Stores("add_neuron", neuron, added.store, added.result)

RemoveNeuron(neuron_id) ==
    /\ status = "running"
    /\ last = NoCall
    /\ Stores("remove_neuron", neuron_id, RemoveNeuronFrom(Stored, neuron_id),
              None)

WithNeuronMut(neuron_id, change) ==
    /\ status = "running"
    /\ last = NoCall
    /\ LET mutated == WithNeuronMutIn(Stored, neuron_id, change)
       IN  Stores("with_neuron_mut", <<neuron_id, change>>, mutated.store,
                  mutated.result)

\* NeuronStore::set_time_warp.
SetTimeWarp(new_time_warp) ==
    /\ status = "running"
    /\ last = NoCall
    /\ clock' = [clock EXCEPT !.time_warp = new_time_warp]
    /\ UNCHANGED <<validated, unvalidated, status, last, earlier, setup,
                   prioritizer, heap_neurons, topic_followee_index,
                   stable_neuron_store, stable_neuron_indexes,
                   only_in_stable_memory, upgrades_memory>>

\* The time of the system goes on.
TimePasses ==
    /\ status = "running"
    /\ last = NoCall
    /\ clock.time < MaxTime
    /\ clock' = [clock EXCEPT !.time = @ + 1]
    /\ UNCHANGED <<validated, unvalidated, status, last, earlier, setup,
                   prioritizer, heap_neurons, topic_followee_index,
                   stable_neuron_store, stable_neuron_indexes,
                   only_in_stable_memory, upgrades_memory>>

\* NeuronStore::new over no neurons, in either build.
InitNeuronStore ==
    /\ validated = NewSection
    /\ unvalidated = NewSection
    /\ status = "running"
    /\ last = NoCall
    /\ earlier = NoCall
    /\ sort_ties = KeyOrderTies
    /\ ingress_pool_max_count = usize_MAX
    /\ ingress_pool_max_bytes = usize_MAX
    /\ time_source = 0
    /\ priority_fn = None
    /\ GovernanceNew
    /\ only_in_stable_memory \in BOOLEAN

NextNeuronStore ==
    \/ Return
    \/ \E neuron \in Neurons : AddNeuron(neuron)
    \/ \E neuron_id \in NeuronIds : RemoveNeuron(neuron_id)
    \/ \E neuron_id \in NeuronIds, change \in NeuronContents :
          WithNeuronMut(neuron_id, change)
    \/ \E new_time_warp \in TimeWarps : SetTimeWarp(new_time_warp)
    \/ TimePasses

SpecNeuronStore == InitNeuronStore /\ [][NextNeuronStore]_vars

\* ------------------------------------------------------------ upgrades memory
\* The most pages the memory manager lets a memory have (2^22).
MAX_PAGES == 10

\* The numbers of pages asked for: none, some within the maximum, and some
\* beyond it.
TargetPages == 0..(MAX_PAGES + 2)

\* u64::saturating_sub.
SaturatingSub(a, b) == IF a >= b THEN a - b ELSE 0

\* Memory::grow of the upgrades memory: the size afterwards and the value
\* returned, the previous size or -1 where the memory cannot grow so far.
MemoryGrow(size, pages) ==
    IF size + pages > MAX_PAGES
    THEN [size |-> size, previous_size |-> -1]
    ELSE [size |-> size + pages, previous_size |-> size]

\* Mutant of GrowUpgradesMemorySize: the memory is brought to the target from
\* above as well.
GrowUpgradesMemorySize_Resizes(current_size, target_pages) ==
    IF target_pages <= MAX_PAGES THEN target_pages ELSE current_size

\* grow_upgrades_memory_to: the size of the upgrades memory afterwards.
GrowUpgradesMemorySize(current_size, target_pages) ==
    LET diff == SaturatingSub(target_pages, current_size)
    IN  IF diff = 0 THEN current_size
        ELSE MemoryGrow(current_size, diff).size

\* grow_upgrades_memory_to returns nothing; its caller holds the size the
\* memory had before.
GrowUpgradesMemoryTo(target_pages) ==
    /\ status = "running"
    /\ last = NoCall
    /\ upgrades_memory' = GrowUpgradesMemorySize(upgrades_memory, target_pages)
    /\ last' = [op |-> "grow_upgrades_memory_to", arg |-> target_pages,
                pre |-> upgrades_memory, trace |-> <<>>, result |-> None]
    /\ UNCHANGED <<validated, unvalidated, status, earlier, setup, prioritizer,
                   neuron_store>>

NextUpgrades ==
    \/ Return
    \/ \E target_pages \in TargetPages : GrowUpgradesMemoryTo(target_pages)

\* The governance canister as State::new leaves it, growing its upgrades
\* memory.
SpecUpgrades == Init /\ [][NextUpgrades]_vars

\* ------------------------------------------------------------------ claims
\* The ids stored in a section.
Keys(section) == DOMAIN section.artifacts

\* The last call was apply_changes; it returned a ChangeResult.
ApplyRan == last.op = "apply_changes"
Completed == ApplyRan /\ last.result # None

\* The actions of the last change set that were run: action last.arg[i] took
\* the loop from last.trace[i] to last.trace[i + 1].
Steps == IF ApplyRan THEN 1..(Len(last.trace) - 1) ELSE {}

\* The memoized byte size of a section is the sum over its entries.
SectionOk(section) == section.byte_size = CountBytesSlow(section)

\* C1: byte accounting. In every state, and after every action of a change
\* set, the cached byte_size of each section equals the sum of the byte sizes
\* of the entries the section holds.
C1_ByteAccounting ==
    /\ SectionOk(validated)
    /\ SectionOk(unvalidated)
    /\ \A i \in 1..Len(last.trace) :
          SectionOk(last.trace[i].validated) /\ SectionOk(last.trace[i].unvalidated)

\* An insert replaced an entry by one of another size while the validated
\* section held entries too.
C1_Witness ==
    /\ last.op = "insert"
    /\ LET id == IngressMessageIdFrom(last.arg.message)
       IN  /\ id \in Keys(last.pre.unvalidated)
           /\ last.pre.unvalidated.artifacts[id].message.byte_size
                 # last.arg.message.byte_size
    /\ Keys(validated) # {}
    /\ unvalidated.byte_size = last.arg.message.byte_size

\* C2 as stated: after apply_changes completes, no id is in both sections.
C2_DisjointAfterApply ==
    Completed => Keys(validated) \cap Keys(unvalidated) = {}

\* C2 amended: apply_changes never puts an id into both sections; an id that
\* is in both sections after the call was in both before it.
C2_ApplyCreatesNoOverlap ==
    ApplyRan =>
        (Keys(validated) \cap Keys(unvalidated))
            \subseteq (Keys(last.pre.validated) \cap Keys(last.pre.unvalidated))

\* A change set that promoted an id which was in both sections completed.
C2_Witness ==
    /\ Completed
    /\ \E i \in Steps :
          /\ last.arg[i].kind = "MoveToValidated"
          /\ last.arg[i].id \in
                Keys(last.pre.validated) \cap Keys(last.pre.unvalidated)
    /\ Keys(validated) \cap Keys(unvalidated) = {}

\* C3: a MoveToValidated(id) applied while id is in unvalidated leaves id in
\* validated with the timestamp the unvalidated entry had, and id absent from
\* unvalidated.
C3_PromotionPreservesTimestamp ==
    \A i \in Steps :
        LET a == last.arg[i]
            before == last.trace[i]
            after == last.trace[i + 1]
        IN  (a.kind = "MoveToValidated" /\ a.id \in Keys(before.unvalidated)) =>
                /\ GetTimestamp(after.validated, a.id)
                      = Some(before.unvalidated.artifacts[a.id].timestamp)
                /\ GetTimestamp(after.unvalidated, a.id) = None

\* A promotion of an entry that arrived at time 1 over a validated entry of
\* the same id that arrived at time 0.
C3_Witness ==
    \E i \in Steps :
        /\ last.arg[i].kind = "MoveToValidated"
        /\ GetTimestamp(last.trace[i].unvalidated, last.arg[i].id) = Some(1)
        /\ GetTimestamp(last.trace[i].validated, last.arg[i].id) = Some(0)
        /\ GetTimestamp(validated, last.arg[i].id) = Some(1)

\* The MoveToValidated actions of a change set whose source is the own node.
IsOwnMove(a) == a.kind = "MoveToValidated" /\ a.source_node_id = node_id
OwnMoves(change_set) == SelectSeq(change_set, IsOwnMove)

\* C4: the adverts of a ChangeResult are, in order, one advert per
\* MoveToValidated action whose source is the own node, with the id, size and
\* integrity hash of that action; no other action yields an advert.
C4_AdvertIffOwnSource ==
    Completed =>
        LET own == OwnMoves(last.arg)
            adverts == last.result[1].adverts
        IN  /\ Len(adverts) = Len(own)
            /\ \A k \in 1..Len(own) :
                  /\ adverts[k].id = own[k].id
                  /\ adverts[k].size = own[k].size
                  /\ adverts[k].integrity_hash = own[k].integrity_hash

\* A change set with a promotion from the own node and one from another node
\* returned a single advert.
C4_Witness ==
    /\ Completed
    /\ \E i, j \in Steps :
          /\ last.arg[i].kind = "MoveToValidated"
          /\ last.arg[j].kind = "MoveToValidated"
          /\ last.arg[i].source_node_id = node_id
          /\ last.arg[j].source_node_id # node_id
    /\ Len(last.result[1].adverts) = 1

\* C5: a MoveToValidated(id) applied while id is absent from unvalidated
\* leaves both sections as they were before that action.
C5_FaultLeavesSections ==
    \A i \in Steps :
        LET a == last.arg[i]
            before == last.trace[i]
            after == last.trace[i + 1]
        IN  (a.kind = "MoveToValidated" /\ a.id \notin Keys(before.unvalidated)) =>
                /\ after.validated = before.validated
                /\ after.unvalidated = before.unvalidated
                /\ validated = before.validated
                /\ unvalidated = before.unvalidated

\* A promotion of an id that is validated but not unvalidated was run.
C5_Witness ==
    \E i \in Steps :
        /\ last.arg[i].kind = "MoveToValidated"
        /\ last.arg[i].id \notin Keys(last.trace[i].unvalidated)
        /\ last.arg[i].id \in Keys(last.trace[i].validated)
        /\ Keys(unvalidated) # {}
        /\ status = "panicked"

\* The loop state apply_changes starts from in a pool.
LoopStart(pool) ==
    [validated |-> pool.validated, unvalidated |-> pool.unvalidated,
     adverts |-> <<>>, purged |-> <<>>, fault |-> FALSE]

\* C6 as stated: a change set is applied as a whole, or (on a fault) not at
\* all, the pool being as it was before the call.
C6_AllOrNothing ==
    ApplyRan => (last.result # None \/ Pool = last.pre)

\* C6 amended: apply_changes applies the actions in order without rollback.
\* When it returns, all actions were run. When it faults, the faulting action
\* is a MoveToValidated of an id absent from unvalidated, and the pool is what
\* the actions before it, applied alone, produce: their effects stay.
C6_NoRollback ==
    ApplyRan =>
        LET n == Len(last.trace) - 1
        IN  IF last.result # None
            THEN /\ n = Len(last.arg)
                 /\ status = "running"
                 /\ validated = last.trace[n + 1].validated
                 /\ unvalidated = last.trace[n + 1].unvalidated
            ELSE /\ status = "panicked"
                 /\ n >= 1
                 /\ last.arg[n].kind = "MoveToValidated"
                 /\ last.arg[n].id \notin Keys(last.trace[n].unvalidated)
                 /\ LET prefix == SubSeq(last.arg, 1, n - 1)
                        st0 == LoopStart(last.pre)
                        r == ApplyLoop(st0, prefix, 1, <<st0>>)
                    IN  /\ ~r.st.fault
                        /\ validated = r.st.validated
                        /\ unvalidated = r.st.unvalidated

\* A change set faulted at its second action after its first one had changed
\* the pool.
C6_Witness ==
    /\ ApplyRan
    /\ status = "panicked"
    /\ Len(last.trace) = 3
    /\ Pool # last.pre

\* The ids an action appends to purged in a loop state.
PurgedBy(action, before) ==
    CASE action.kind = "RemoveFromValidated" ->
            IF action.id \in Keys(before.validated) THEN <<action.id>> ELSE <<>>
      [] action.kind = "PurgeBelowExpiry" ->
            SortedKeys({k \in Keys(before.validated) : k[1] < action.expiry})
      [] OTHER -> <<>>

\* What the first n actions of the last change set append to purged, each in
\* the state its predecessors left.
RECURSIVE PurgedUpTo(_)
PurgedUpTo(n) ==
    IF n = 0 THEN <<>>
    ELSE PurgedUpTo(n - 1) \o PurgedBy(last.arg[n], last.trace[n])

\* C7: the actions of a change set are applied in input order, each in the
\* pool its predecessors left. [MoveToValidated(x), RemoveFromValidated(x)]
\* ends with x in neither section and purged = [x]; the reverse order, for x
\* unvalidated only, ends with x validated and nothing purged. purged lists
\* the ids in the order of the actions that removed them.
C7_InOrder ==
    ApplyRan =>
        /\ \A x \in IngressMessageIds :
              (/\ Len(last.arg) = 2
               /\ last.arg[1].kind = "MoveToValidated" /\ last.arg[1].id = x
               /\ last.arg[2].kind = "RemoveFromValidated" /\ last.arg[2].id = x
               /\ x \in Keys(last.pre.unvalidated))
              => /\ Completed
                 /\ x \notin Keys(validated) \cup Keys(unvalidated)
                 /\ last.result[1].purged = <<x>>
        /\ \A x \in IngressMessageIds :
              (/\ Len(last.arg) = 2
               /\ last.arg[1].kind = "RemoveFromValidated" /\ last.arg[1].id = x
               /\ last.arg[2].kind = "MoveToValidated" /\ last.arg[2].id = x
               /\ x \in Keys(last.pre.unvalidated) \ Keys(last.pre.validated))
              => /\ Completed
                 /\ x \in Keys(validated)
                 /\ last.result[1].purged = <<>>
        /\ Completed => last.result[1].purged = PurgedUpTo(Len(last.arg))

\* [MoveToValidated(x), RemoveFromValidated(x)] was applied to a pool with x
\* unvalidated only.
C7_Witness ==
    /\ Completed
    /\ Len(last.arg) = 2
    /\ last.arg[1].kind = "MoveToValidated"
    /\ last.arg[2].kind = "RemoveFromValidated"
    /\ last.arg[1].id = last.arg[2].id
    /\ last.arg[1].id \notin Keys(last.pre.validated)
    /\ last.result[1].purged = <<last.arg[1].id>>

\* C8: changed is true exactly when the change set has an action, whatever
\* the actions did; the empty change set yields no adverts and nothing purged.
C8_ChangedIffNonEmpty ==
    Completed =>
        /\ last.result[1].changed = (Len(last.arg) > 0)
        /\ Len(last.arg) = 0 =>
              last.result[1].adverts = <<>> /\ last.result[1].purged = <<>>

\* A change set that only removes an absent id from unvalidated changed
\* nothing and returned changed = true.
C8_Witness ==
    /\ Completed
    /\ Len(last.arg) = 1
    /\ last.arg[1].kind = "RemoveFromUnvalidated"
    /\ Pool = last.pre
    /\ Keys(validated) # {}
    /\ last.result[1].changed = TRUE
    /\ last.result[1].adverts = <<>>
    /\ last.result[1].purged = <<>>

\* The artifacts of a section are those of another without one id.
Without(after, before, id) ==
    /\ Keys(after) = Keys(before) \ {id}
    /\ \A k \in Keys(after) : after.artifacts[k] = before.artifacts[k]

\* C9: RemoveFromValidated(id) removes id from validated and appends it to
\* purged when it is there; otherwise validated and purged stay. The
\* unvalidated section stays in both cases.
C9_RemoveFromValidated ==
    \A i \in Steps :
        LET a == last.arg[i]
            before == last.trace[i]
            after == last.trace[i + 1]
        IN  a.kind = "RemoveFromValidated" =>
                /\ after.unvalidated = before.unvalidated
                /\ IF a.id \in Keys(before.validated)
                   THEN /\ Without(after.validated, before.validated, a.id)
                        /\ after.purged = Append(before.purged, a.id)
                   ELSE /\ after.validated = before.validated
                        /\ after.purged = before.purged

\* A change set removed an id from validated and then tried again, with the
\* id unvalidated as well.
C9_Witness ==
    /\ Completed
    /\ Len(last.arg) = 2
    /\ last.arg[1].kind = "RemoveFromValidated"
    /\ last.arg[2] = last.arg[1]
    /\ last.arg[1].id \in Keys(last.pre.validated)
    /\ last.arg[1].id \in Keys(unvalidated)
    /\ last.result[1].purged = <<last.arg[1].id>>

\* C10: RemoveFromUnvalidated(id) removes id from unvalidated when it is
\* there; when it is absent both sections stay and the loop goes on with the
\* next action. It never changes validated, purged or adverts.
C10_RemoveFromUnvalidated ==
    \A i \in Steps :
        LET a == last.arg[i]
            before == last.trace[i]
            after == last.trace[i + 1]
        IN  a.kind = "RemoveFromUnvalidated" =>
                /\ after.validated = before.validated
                /\ after.purged = before.purged
                /\ after.adverts = before.adverts
                /\ ~after.fault
                /\ i < Len(last.arg) => (i + 1) \in Steps
                /\ IF a.id \in Keys(before.unvalidated)
                   THEN Without(after.unvalidated, before.unvalidated, a.id)
                   ELSE after.unvalidated = before.unvalidated

\* A change set removed an absent id from unvalidated and went on to promote
\* another id; the absent id is validated.
C10_Witness ==
    /\ Completed
    /\ Len(last.arg) = 2
    /\ last.arg[1].kind = "RemoveFromUnvalidated"
    /\ last.arg[1].id \notin Keys(last.pre.unvalidated)
    /\ last.arg[1].id \in Keys(validated)
    /\ last.arg[2].kind = "MoveToValidated"
    /\ last.arg[2].id \in Keys(validated)

\* The entries of a section whose expiry is at least a cutoff.
Survivors(section, cutoff) == {k \in Keys(section) : k[1] >= cutoff}

\* The artifacts of a section are those of another under the given keys.
Restricted(after, before, keys) ==
    /\ Keys(after) = keys
    /\ \A k \in keys : after.artifacts[k] = before.artifacts[k]

\* The elements of a sequence from position n + 1 on.
Suffix(seq, n) == SubSeq(seq, n + 1, Len(seq))

\* C11: PurgeBelowExpiry(cutoff) removes from both sections the entries with
\* expiry < cutoff and no others; purged grows by exactly the ids removed from
\* validated, each once (its growth is validated.size() before minus after);
\* an id removed from unvalidated only is not reported; every surviving entry
\* has expiry >= cutoff.
C11_PurgeBelowExpiry ==
    \A i \in Steps :
        LET a == last.arg[i]
            before == last.trace[i]
            after == last.trace[i + 1]
            grown == Suffix(after.purged, Len(before.purged))
        IN  a.kind = "PurgeBelowExpiry" =>
                /\ Restricted(after.validated, before.validated,
                              Survivors(before.validated, a.expiry))
                /\ Restricted(after.unvalidated, before.unvalidated,
                              Survivors(before.unvalidated, a.expiry))
                /\ SubSeq(after.purged, 1, Len(before.purged)) = before.purged
                /\ {grown[j] : j \in 1..Len(grown)}
                      = Keys(before.validated) \ Keys(after.validated)
                /\ Len(grown) = SectionSize(before.validated)
                                  - SectionSize(after.validated)
                /\ \A k \in Keys(after.validated) \cup Keys(after.unvalidated) :
                      k[1] >= a.expiry
                /\ after.adverts = before.adverts
                /\ ~after.fault

\* A purge at an entry's own expiry kept it in validated and silently dropped
\* an older entry that was unvalidated only; the next purge removed and
\* reported the validated entry.
C11_Witness ==
    /\ Completed
    /\ Len(last.arg) = 2
    /\ last.arg[1].kind = "PurgeBelowExpiry"
    /\ last.arg[2].kind = "PurgeBelowExpiry"
    /\ \E old \in Keys(last.pre.unvalidated) \ Keys(last.pre.validated),
          kept \in Keys(last.pre.validated) :
          /\ old[1] < last.arg[1].expiry
          /\ kept[1] = last.arg[1].expiry
          /\ kept \in Keys(last.trace[2].validated)
          /\ old \notin Keys(last.trace[2].unvalidated)
          /\ last.trace[2].purged = <<>>
          /\ last.result[1].purged = <<kept>>
          /\ Keys(validated) = {}

\* C13: contains(id) is true exactly when id is in the unvalidated section or
\* in the validated section, for every id in every reachable pool, and that
\* is what a call returns.
C13_Contains ==
    /\ \A id \in IngressMessageIds :
          Contains(Pool, id) <=> (id \in Keys(unvalidated) \/ id \in Keys(validated))
    /\ last.op = "contains" =>
          last.result = Some(last.arg \in Keys(unvalidated) \cup Keys(validated))

\* contains returned true for an id that is unvalidated only while the other
\* id is validated only.
C13_Witness ==
    /\ last.op = "contains"
    /\ last.arg \in Keys(unvalidated) \ Keys(validated)
    /\ Keys(validated) \ Keys(unvalidated) # {}
    /\ last.result = Some(TRUE)

\* exceeds_threshold of a pool (or of a loop state) under the pool's caps.
ExceedsIn(pool) ==
    ExceedsThreshold(pool, ingress_pool_max_count, ingress_pool_max_bytes)

\* C14: insert(artifact) leaves the unvalidated section with an entry under
\* the message's id that carries the message, the peer id and the timestamp
\* supplied, and leaves the validated section as it was: whether or not the
\* pool exceeds its threshold, the message is expired, or the id is validated.
C14_InsertAlwaysAdmits ==
    last.op = "insert" =>
        LET id == IngressMessageIdFrom(last.arg.message)
        IN  /\ id \in Keys(unvalidated)
            /\ unvalidated.artifacts[id] =
                  [message |-> last.arg.message, peer_id |-> last.arg.peer_id,
                   timestamp |-> last.arg.timestamp]
            /\ validated = last.pre.validated
            /\ status = "running"

\* An insert into a pool that exceeded its threshold, of an expired message
\* whose id is validated and not unvalidated.
C14_Witness ==
    /\ last.op = "insert"
    /\ ExceedsIn(last.pre)
    /\ last.arg.message.expiry < time_source
    /\ IngressMessageIdFrom(last.arg.message)
          \in Keys(validated) \ Keys(last.pre.unvalidated)
    /\ IngressMessageIdFrom(last.arg.message) \in Keys(unvalidated)

\* The condition of exceeds_threshold, with the bytes counted entry by entry.
OverCap(pool) ==
    \/ SectionSize(pool.validated) + SectionSize(pool.unvalidated)
          >= ingress_pool_max_count
    \/ CountBytesSlow(pool.validated) + CountBytesSlow(pool.unvalidated)
          >= ingress_pool_max_bytes

C16_NeverSwitchedBack ==
    /\ last.op = "insert" => (ExceedsIn(last.pre) => Exceeds)
    /\ \A i \in Steps :
          last.arg[i].kind = "MoveToValidated" =>
              (ExceedsIn(last.trace[i]) => ExceedsIn(last.trace[i + 1]))

\* C16 amended: exceeds_threshold() is true while a total is at its cap. An
\* insert of an id that is not unvalidated and a MoveToValidated of an id that
\* is not validated never switch it from true to false. It is switched back
\* only by remove, RemoveFromUnvalidated, RemoveFromValidated,
\* PurgeBelowExpiry, an insert that replaces an unvalidated entry by a smaller
\* one, or a MoveToValidated that replaces a validated entry of the same id.
C16_SwitchedBackOnlyByShrinking ==
    /\ last.op = "exceeds_threshold" => last.result = Some(OverCap(Pool))
    /\ last.op = "insert" =>
          LET id == IngressMessageIdFrom(last.arg.message)
          IN  (ExceedsIn(last.pre) /\ ~Exceeds) =>
                  /\ id \in Keys(last.pre.unvalidated)
                  /\ last.arg.message.byte_size
                        < last.pre.unvalidated.artifacts[id].message.byte_size
    /\ \A i \in Steps :
          LET a == last.arg[i]
              before == last.trace[i]
              after == last.trace[i + 1]
          IN  (ExceedsIn(before) /\ ~ExceedsIn(after)) =>
                  \/ a.kind \in {"RemoveFromUnvalidated", "RemoveFromValidated",
                                  "PurgeBelowExpiry"}
                  \/ /\ a.kind = "MoveToValidated"
                     /\ a.id \in Keys(before.validated) \cap Keys(before.unvalidated)
    /\ last.op \in {"contains", "exceeds_threshold", "get_priority_function",
                     "priority_fn"} => Pool = last.pre

\* A pool at its count cap was promoted an id that was in neither section
\* before its insert, and still exceeds the threshold.
C16_Witness ==
    /\ Completed
    /\ Len(last.arg) = 1
    /\ last.arg[1].kind = "MoveToValidated"
    /\ last.arg[1].id \notin Keys(last.pre.validated)
    /\ SectionSize(last.pre.validated) + SectionSize(last.pre.unvalidated)
          = ingress_pool_max_count
    /\ ExceedsIn(last.pre)
    /\ Exceeds

\* C17: a priority function produced while exceeds_threshold() was true
\* returns Drop for every id on every call, whatever the time and the pool at
\* the call; get_priority_function produces it exactly when the pool exceeds
\* its threshold.
C17_PriorityFreeze ==
    /\ (last.op = "priority_fn" /\ priority_fn[1].drop_all) =>
          last.result = Some("Drop")
    /\ last.op = "get_priority_function" =>
          /\ priority_fn # None
          /\ priority_fn[1].drop_all = OverCap(Pool)

\* A priority function made over a full pool returned Drop, at a later time
\* and with the pool below its caps, for an id inside the window.
C17_Witness ==
    /\ last.op = "priority_fn"
    /\ priority_fn[1].drop_all
    /\ ~Exceeds
    /\ priority_fn[1].made_at < time_source
    /\ time_source <= last.arg[1]
    /\ last.arg[1] <= time_source + MAX_INGRESS_TTL
    /\ last.result = Some("Drop")

\* C18: a priority function produced while exceeds_threshold() was false
\* returns Later for an id whose expiry is in [now, now + MAX_INGRESS_TTL],
\* bounds included, and Drop otherwise, now being the time at the call.
C18_PriorityWindow ==
    (last.op = "priority_fn" /\ ~priority_fn[1].drop_all) =>
        LET now == time_source
            expiry == last.arg[1]
        IN  /\ last.result \in {Some("Later"), Some("Drop")}
            /\ last.result = Some("Later")
                  <=> (now <= expiry /\ expiry <= now + MAX_INGRESS_TTL)

\* A priority function made when an id was beyond the window returned Later
\* for it once the time had reached expiry - MAX_INGRESS_TTL, with the pool
\* exceeding its threshold by then.
C18_Witness ==
    /\ last.op = "priority_fn"
    /\ ~priority_fn[1].drop_all
    /\ priority_fn[1].made_at + MAX_INGRESS_TTL < last.arg[1]
    /\ last.arg[1] = time_source + MAX_INGRESS_TTL
    /\ Exceeds
    /\ last.result = Some("Later")

\* The ids of a sequence of artifacts, and of a sequence of messages.
IdsOf(artifacts) ==
    {IngressMessageIdFrom(AsPoolObject(artifacts[i])) : i \in 1..Len(artifacts)}
MessageIds(messages) ==
    {IngressMessageIdFrom(messages[i]) : i \in 1..Len(messages)}

\* C12: after purge_below(c) on a section every remaining entry has expiry
\* >= c and every entry handed back had expiry < c; an entry with expiry c is
\* kept as it was, whatever its content hash; no entry is lost in between.
C12_PurgeIsPrefix ==
    last.op = "purge_below" =>
        LET c == last.arg
            removed == last.result[1]
            before == last.pre.validated
        IN  /\ \A k \in Keys(validated) : k[1] >= c
            /\ \A i \in 1..Len(removed) : removed[i].msg.expiry < c
            /\ \A k \in Keys(before) :
                  k[1] = c => (k \in Keys(validated)
                               /\ validated.artifacts[k] = before.artifacts[k])
            /\ Keys(before) = Keys(validated) \cup IdsOf(removed)
            /\ Keys(validated) \cap IdsOf(removed) = {}

\* A purge at the expiry of two entries, one of them with the all-zero hash,
\* kept both and handed back the one older entry.
C12_Witness ==
    /\ last.op = "purge_below"
    /\ {<<last.arg, ZeroHash>>, <<last.arg, MaxHash>>} \subseteq Keys(validated)
    /\ Keys(last.pre.validated) # Keys(validated)
    /\ Len(last.result[1]) = 1
    /\ last.result[1][1].msg.expiry < last.arg

\* The timestamp stored with the validated entry of a message.
StoredTimestamp(message) ==
    validated.artifacts[IngressMessageIdFrom(message)].timestamp

\* C19: select_validated returns the messages in non-decreasing order of the
\* timestamps stored with their validated entries, and offers them to the
\* selector in that order, whatever their expiries.
C19_SelectByTimestamp ==
    last.op = "select_validated" =>
        LET collected == last.result[1].collected
            offered == last.result[1].offered
        IN  /\ \A i, j \in 1..Len(collected) :
                  i < j => StoredTimestamp(collected[i]) <= StoredTimestamp(collected[j])
            /\ \A i, j \in 1..Len(offered) :
                  i < j => offered[i].timestamp <= offered[j].timestamp

\* A selection of three or more messages returned a message of a later expiry
\* before one of an earlier expiry that arrived after it.
C19_Witness ==
    /\ last.op = "select_validated"
    /\ last.arg.f = AlwaysSelect
    /\ LET collected == last.result[1].collected
       IN  /\ Len(collected) >= 3
           /\ \E i, j \in 1..Len(collected) :
                 /\ i < j
                 /\ collected[i].expiry > collected[j].expiry
                 /\ StoredTimestamp(collected[i]) < StoredTimestamp(collected[j])

\* The entries of a section whose expiry is in [lo, hi].
InRange(section, lo, hi) == {k \in Keys(section) : lo <= k[1] /\ k[1] <= hi}

\* C20 as stated: the artifacts offered to the selector are exactly the
\* validated entries with expiry in [lo, hi], for every selector.
C20_OfferedExactlyRange ==
    last.op = "select_validated" =>
        IdsOf(last.result[1].offered) = InRange(validated, last.arg.start, last.arg.end)

\* C20 amended: the artifacts offered to the selector are validated entries
\* with expiry in [lo, hi], each offered at most once, and they are all of
\* those entries unless the selector aborted; nothing else is returned; with
\* the always-select selector the result is exactly the entries in range.
C20_SelectRange ==
    last.op = "select_validated" =>
        LET collected == last.result[1].collected
            offered == last.result[1].offered
            in_range == InRange(validated, last.arg.start, last.arg.end)
            aborted == \E i \in 1..Len(offered) : last.arg.f[i] = "Abort"
        IN  /\ IdsOf(offered) \subseteq in_range
            /\ Cardinality(IdsOf(offered)) = Len(offered)
            /\ \A i \in 1..Len(offered) :
                  offered[i] = validated.artifacts[IngressMessageIdFrom(offered[i].msg)]
            /\ ~aborted => IdsOf(offered) = in_range
            /\ MessageIds(collected) \subseteq IdsOf(offered)
            /\ last.arg.f = AlwaysSelect =>
                  /\ MessageIds(collected) = in_range
                  /\ Len(collected) = Cardinality(in_range)
                  /\ \A i \in 1..Len(collected) :
                        collected[i]
                          = validated.artifacts[IngressMessageIdFrom(collected[i])].msg

\* The always-select selection at one expiry returned the two validated
\* entries of that expiry, of the all-zero and of the all-0xff hash, and not
\* the validated entry of another expiry; the unvalidated section held an
\* entry of that expiry and an entry that is unvalidated only.
C20_Witness ==
    /\ last.op = "select_validated"
    /\ last.arg.f = AlwaysSelect
    /\ last.arg.start = last.arg.end
    /\ MessageIds(last.result[1].collected)
          = {<<last.arg.end, ZeroHash>>, <<last.arg.end, MaxHash>>}
    /\ \E k \in Keys(validated) : k[1] # last.arg.end
    /\ \E k \in Keys(unvalidated) : k[1] = last.arg.end
    /\ Keys(unvalidated) \ Keys(validated) # {}

\* The messages of the artifacts, among the first n offered, that the
\* selector answered Selected to.
RECURSIVE SelectedAmong(_, _, _)
SelectedAmong(offered, f, n) ==
    IF n = 0 THEN <<>>
    ELSE IF f[n] = "Selected"
         THEN Append(SelectedAmong(offered, f, n - 1), offered[n].msg)
         ELSE SelectedAmong(offered, f, n - 1)

\* C21: select_validated calls the selector on the candidates one at a time
\* in timestamp order; the result is the messages it answered Selected to, in
\* that order; Skip adds nothing and the loop goes on; the call that is
\* answered Abort is the last one, and the result is what was selected
\* before it.
C21_SelectorProtocol ==
    last.op = "select_validated" =>
        LET f == last.arg.f
            collected == last.result[1].collected
            offered == last.result[1].offered
            n == Cardinality(InRange(validated, last.arg.start, last.arg.end))
            aborts == {i \in 1..n : f[i] = "Abort"}
            calls == IF aborts = {} THEN n
                     ELSE CHOOSE i \in aborts : \A j \in aborts : i <= j
        IN  /\ Len(offered) = calls
            /\ \A i, j \in 1..Len(offered) :
                  i < j => offered[i].timestamp <= offered[j].timestamp
            /\ \A i \in 1..(Len(offered) - 1) : f[i] # "Abort"
            /\ collected = SelectedAmong(offered, f, Len(offered))

\* Of four candidates the first was selected, the second skipped, the third
\* answered with Abort and the fourth never offered.
C21_Witness ==
    /\ last.op = "select_validated"
    /\ Cardinality(InRange(validated, last.arg.start, last.arg.end)) = 4
    /\ last.arg.f[1] = "Selected"
    /\ last.arg.f[2] = "Skip"
    /\ last.arg.f[3] = "Abort"
    /\ Len(last.result[1].offered) = 3
    /\ last.result[1].collected = <<last.result[1].offered[1].msg>>

\* C22: get_all_by_expiry_range(lo..=hi) of a section yields exactly its
\* entries with expiry in [lo, hi], whatever their content hash, each once, in
\* ascending key order (expiry, then hash); nothing when hi < lo; the section
\* stays as it was.
C22_RangeQuery ==
    last.op = "get_all_by_expiry_range" =>
        LET yielded == last.result[1]
            lo == last.arg.start
            hi == last.arg.end
        IN  /\ IdsOf(yielded) = InRange(validated, lo, hi)
            /\ Len(yielded) = Cardinality(InRange(validated, lo, hi))
            /\ \A i \in 1..Len(yielded) :
                  yielded[i] = validated.artifacts[IngressMessageIdFrom(yielded[i].msg)]
            /\ \A i, j \in 1..Len(yielded) :
                  i < j => IdLess(IngressMessageIdFrom(yielded[i].msg),
                                  IngressMessageIdFrom(yielded[j].msg))
            /\ hi < lo => yielded = <<>>
            /\ Pool = last.pre

\* A query from an expiry to itself on a section that holds all four ids
\* yielded the entry of the all-zero hash and then the one of the all-0xff
\* hash.
C22_Witness ==
    /\ last.op = "get_all_by_expiry_range"
    /\ last.arg.start = last.arg.end
    /\ Keys(validated) = SectionIds
    /\ Len(last.result[1]) = 2
    /\ last.result[1][1].msg.message_id = ZeroHash
    /\ last.result[1][2].msg.message_id = MaxHash

\* C23: an insert under a key that is in the section replaces the stored
\* artifact, leaves size() as it was and makes byte_size the old byte_size
\* minus the replaced artifact's bytes plus the new artifact's; under a fresh
\* key size() grows by one and byte_size by the artifact's bytes. The other
\* entries stay, and neither case is an error.
C23_SectionInsertUpserts ==
    last.op = "section_insert" =>
        LET id == IngressMessageIdFrom(last.arg.msg)
            before == last.pre.validated
        IN  /\ Keys(validated) = Keys(before) \cup {id}
            /\ validated.artifacts[id] = last.arg
            /\ \A k \in Keys(before) \ {id} :
                  validated.artifacts[k] = before.artifacts[k]
            /\ IF id \in Keys(before)
               THEN /\ SectionSize(validated) = SectionSize(before)
                    /\ validated.byte_size =
                          (before.byte_size - ArtifactBytes(before.artifacts[id]))
                              + ArtifactBytes(last.arg)
               ELSE /\ SectionSize(validated) = SectionSize(before) + 1
                    /\ validated.byte_size =
                          before.byte_size + ArtifactBytes(last.arg)
            /\ status = "running"

\* An insert replaced an entry by one of another size and arrival time in a
\* section that holds other entries.
C23_Witness ==
    /\ last.op = "section_insert"
    /\ LET id == IngressMessageIdFrom(last.arg.msg)
       IN  /\ id \in Keys(last.pre.validated)
           /\ last.pre.validated.artifacts[id] # last.arg
           /\ ArtifactBytes(last.pre.validated.artifacts[id])
                 # ArtifactBytes(last.arg)
           /\ validated.artifacts[id] = last.arg
    /\ SectionSize(validated) = 3
    /\ validated.byte_size # last.pre.validated.byte_size

\* C24: remove(id) on a section that holds id hands back the stored artifact
\* and deletes it: size() falls by one, byte_size by that artifact's bytes,
\* the other entries stay. When id is absent it hands back nothing and the
\* section stays as it was. Neither case is an error.
C24_SectionRemove ==
    last.op = "section_remove" =>
        LET id == last.arg
            before == last.pre.validated
        IN  /\ IF id \in Keys(before)
               THEN /\ last.result = Some(before.artifacts[id])
                    /\ Without(validated, before, id)
                    /\ SectionSize(validated) = SectionSize(before) - 1
                    /\ validated.byte_size =
                          before.byte_size - ArtifactBytes(before.artifacts[id])
               ELSE /\ last.result = None
                    /\ validated = before
            /\ status = "running"

\* A remove handed back a 2-byte artifact from a section that keeps two other
\* entries.
C24_Witness ==
    /\ last.op = "section_remove"
    /\ last.result # None
    /\ ArtifactBytes(last.result[1]) = 2
    /\ SectionSize(validated) = 2
    /\ validated.byte_size = last.pre.validated.byte_size - 2
    /\ last.arg \notin Keys(validated)

\* C25: on a pool that holds id in neither section, insert(m) makes
\* contains(id) true and unvalidated.size() one more; the remove(id) that
\* follows makes contains(id) false and brings unvalidated.size() and
\* byte_size() back to what they were before the insert.
C25_InsertRemoveRoundTrip ==
    (/\ earlier.op = "insert"
     /\ last.op = "remove"
     /\ last.arg = IngressMessageIdFrom(earlier.arg.message)
     /\ ~Contains(earlier.pre, last.arg)) =>
        /\ Contains(last.pre, last.arg)
        /\ SectionSize(last.pre.unvalidated) =
              SectionSize(earlier.pre.unvalidated) + 1
        /\ ~Contains(Pool, last.arg)
        /\ SectionSize(unvalidated) = SectionSize(earlier.pre.unvalidated)
        /\ unvalidated.byte_size = earlier.pre.unvalidated.byte_size
        /\ (earlier.pre.unvalidated = NewSection =>
               SectionSize(unvalidated) = 0 /\ unvalidated.byte_size = 0)

\* The round trip ran on the empty pool, as in test_insert_remove.
C25_Witness ==
    /\ earlier.op = "insert"
    /\ last.op = "remove"
    /\ last.arg = IngressMessageIdFrom(earlier.arg.message)
    /\ earlier.pre = [validated |-> NewSection, unvalidated |-> NewSection]
    /\ SectionSize(last.pre.unvalidated) = 1
    /\ last.pre.unvalidated.byte_size = 2
    /\ unvalidated = NewSection

\* The action last.arg[i] is a MoveToValidated whose id is not in the
\* unvalidated section as the actions before it left it.
MovesAbsent(i) ==
    /\ last.arg[i].kind = "MoveToValidated"
    /\ last.arg[i].id \notin Keys(last.trace[i].unvalidated)

\* C26: when apply_changes reaches a MoveToValidated(id) with id absent from
\* the unvalidated section as it stands then, the call gives no ChangeResult:
\* it panics at that action, and no later action of the change set is
\* applied, the sections being those the loop had at that action.
C26_FaultSurfaced ==
    ApplyRan =>
        \A i \in Steps :
            MovesAbsent(i) =>
                /\ last.result = None
                /\ status = "panicked"
                /\ Len(last.trace) = i + 1
                /\ validated = last.trace[i].validated
                /\ unvalidated = last.trace[i].unvalidated

\* A MoveToValidated of an absent id ran first in a change set whose second
\* action would have removed an entry the unvalidated section holds.
C26_Witness ==
    /\ ApplyRan
    /\ Len(last.arg) = 2
    /\ MovesAbsent(1)
    /\ last.arg[2].kind = "RemoveFromUnvalidated"
    /\ last.arg[2].id \in Keys(unvalidated)
    /\ status = "panicked"

\* The ids a pool holds, in either section.
PoolKeys(pool) == Keys(pool.validated) \cup Keys(pool.unvalidated)

\* One action of a change set, from the sections b to the sections a, keeps
\* to the lifecycle: an id comes into validated only by a MoveToValidated of
\* it that found it in unvalidated, no id comes into unvalidated, and an id
\* goes out of the pool only by a RemoveFromUnvalidated or RemoveFromValidated
\* of it or by a PurgeBelowExpiry above its expiry.
LifecycleStep(b, a, action) ==
    /\ \A id \in Keys(a.validated) \ Keys(b.validated) :
          /\ action.kind = "MoveToValidated"
          /\ action.id = id
          /\ id \in Keys(b.unvalidated)
          /\ a.validated.artifacts[id].msg = b.unvalidated.artifacts[id].message
    /\ Keys(a.unvalidated) \subseteq Keys(b.unvalidated)
    /\ \A id \in PoolKeys(b) \ PoolKeys(a) :
          \/ /\ action.kind \in {"RemoveFromUnvalidated", "RemoveFromValidated"}
             /\ action.id = id
          \/ /\ action.kind = "PurgeBelowExpiry"
             /\ id[1] < action.expiry

C28_GetValidatedByIdentifier ==
    last.op = "get_validated_by_identifier" =>
        LET id == last.arg
            result == last.result[1]
        IN  /\ result # None <=> id \in Keys(validated)
            /\ id \in Keys(validated) =>
                  result = Some(validated.artifacts[id].msg)
            /\ (id \in Keys(unvalidated) \ Keys(validated)) => result = None
            /\ id \notin PoolKeys(Pool) => result = None
            /\ Pool = last.pre

\* The id asked for is in both sections under different messages, and the
\* validated one came back.
C28_Witness ==
    /\ last.op = "get_validated_by_identifier"
    /\ last.arg \in Keys(validated) \cap Keys(unvalidated)
    /\ validated.artifacts[last.arg].msg
          # unvalidated.artifacts[last.arg].message
    /\ last.result[1] = Some(validated.artifacts[last.arg].msg)

\* C29: MutablePool::remove(id) takes id out of the unvalidated section and
\* nothing else: the validated section is after the call what it was before,
\* the other unvalidated entries stay, and contains(id) is true after the
\* call exactly when the validated section holds id.
C29_RemoveUnvalidatedOnly ==
    last.op = "remove" =>
        /\ validated = last.pre.validated
        /\ last.arg \notin Keys(unvalidated)
        /\ Without(unvalidated, last.pre.unvalidated, last.arg)
        /\ Contains(Pool, last.arg) <=> last.arg \in Keys(last.pre.validated)

\* remove(id) ran on a pool that held id in both sections, and contains(id)
\* is still true.
C29_Witness ==
    /\ last.op = "remove"
    /\ last.arg \in Keys(last.pre.validated) \cap Keys(last.pre.unvalidated)
    /\ last.arg \notin Keys(unvalidated)
    /\ Contains(Pool, last.arg)

\* Two calls in a row were select_validated with the same range and the same
\* selector, on the same pool.
SelectedTwice ==
    /\ earlier.op = "select_validated"
    /\ last.op = "select_validated"
    /\ earlier.arg = last.arg
    /\ earlier.pre = last.pre

Ascending(ids) ==
    \A i, j \in 1..Len(ids) : i < j => IdLess(ids[i], ids[j])

\* purge_below took a section from before to after: the entries taken out
\* are gone and their bytes are subtracted.
PurgeTookEffect(before, after) ==
    /\ Keys(after) \subseteq Keys(before)
    /\ \A k \in Keys(after) : after.artifacts[k] = before.artifacts[k]
    /\ after.byte_size =
          before.byte_size
              - SumBytes(before.artifacts, Keys(before) \ Keys(after))
    /\ SectionOk(after)

\* C31: purge_below hands back every entry it removed, once, in ascending
\* key order (expiry, then content hash), as it was stored; the entries are
\* out of the section and their bytes off its byte_size when it returns. That
\* holds for the unvalidated section in apply_changes too, which never looks
\* at what purge_below handed back: purged lists the validated ids only, in
\* ascending key order.
C31_PurgeHandsBackInKeyOrder ==
    /\ last.op = "purge_below" =>
          LET removed == last.result[1]
              before == last.pre.validated
              ids == [i \in 1..Len(removed) |-> IngressMessageIdFrom(removed[i].msg)]
          IN  /\ Ascending(ids)
              /\ IdsOf(removed) = Keys(before) \ Keys(validated)
              /\ \A i \in 1..Len(removed) : removed[i] = before.artifacts[ids[i]]
              /\ PurgeTookEffect(before, validated)
    /\ ApplyRan =>
          \A i \in Steps :
              last.arg[i].kind = "PurgeBelowExpiry" =>
                  LET before == last.trace[i]
                      after == last.trace[i + 1]
                      grown == Suffix(after.purged, Len(before.purged))
                  IN  /\ PurgeTookEffect(before.unvalidated, after.unvalidated)
                      /\ \A k \in Keys(before.unvalidated) :
                            k \in Keys(after.unvalidated)
                                <=> k[1] >= last.arg[i].expiry
                      /\ PurgeTookEffect(before.validated, after.validated)
                      /\ Ascending(grown)
                      /\ {grown[j] : j \in 1..Len(grown)}
                            = Keys(before.validated) \ Keys(after.validated)

\* A PurgeBelowExpiry took the two validated messages of one expiry, handed
\* back with the all-zero hash first, and an unvalidated message, whose bytes
\* are off the unvalidated section.
C31_Witness ==
    /\ Completed
    /\ last.arg[1].kind = "PurgeBelowExpiry"
    /\ last.result[1].purged = << <<1, ZeroHash>>, <<1, MaxHash>> >>
    /\ Keys(last.pre.unvalidated) \ Keys(unvalidated) = {<<1, ZeroHash>>}
    /\ unvalidated.byte_size = last.pre.unvalidated.byte_size - 1
    /\ SectionSize(unvalidated) = 1
    /\ SectionSize(validated) = 2

\* C32: get_all_validated_by_filter gives an empty sequence for every height
\* and every pool, whatever the validated section holds, and leaves the pool
\* as it was.
C32_FilterGivesNothing ==
    last.op = "get_all_validated_by_filter" =>
        /\ last.result = Some(<<>>)
        /\ Pool = last.pre

\* The call was made on a pool with two validated messages.
C32_Witness ==
    /\ last.op = "get_all_validated_by_filter"
    /\ SectionSize(validated) = 2
    /\ last.result[1] = <<>>

\* What a section holds under the ids other than one is the same in two
\* sections: the same ids, each with the same stored entry.
SameElsewhere(before, after, id) ==
    /\ Keys(after) \ {id} = Keys(before) \ {id}
    /\ \A k \in Keys(before) \ {id} : after.artifacts[k] = before.artifacts[k]

\* C35: MoveToValidated(id), RemoveFromUnvalidated(id), RemoveFromValidated(id),
\* insert(m) and remove(id) leave what is stored under every other id as it
\* was, in both sections: the message, the timestamp and, in the unvalidated
\* section, the peer.
C35_FrameOfIdActions ==
    /\ ApplyRan =>
          \A i \in Steps :
              last.arg[i].kind \in {"MoveToValidated", "RemoveFromUnvalidated",
                                    "RemoveFromValidated"} =>
                  /\ SameElsewhere(last.trace[i].validated,
                                   last.trace[i + 1].validated, last.arg[i].id)
                  /\ SameElsewhere(last.trace[i].unvalidated,
                                   last.trace[i + 1].unvalidated, last.arg[i].id)
    /\ last.op = "insert" =>
          /\ SameElsewhere(last.pre.validated, validated,
                           IngressMessageIdFrom(last.arg.message))
          /\ SameElsewhere(last.pre.unvalidated, unvalidated,
                           IngressMessageIdFrom(last.arg.message))
    /\ last.op = "remove" =>
          /\ SameElsewhere(last.pre.validated, validated, last.arg)
          /\ SameElsewhere(last.pre.unvalidated, unvalidated, last.arg)

\* A change set removed an id from the unvalidated section and from the
\* validated one while the other id, of a lesser key, stayed in both.
C35_Witness ==
    /\ Completed
    /\ Len(last.arg) = 2
    /\ last.arg[1].kind = "RemoveFromUnvalidated"
    /\ last.arg[2].kind = "RemoveFromValidated"
    /\ last.arg[1].id = last.arg[2].id
    /\ last.arg[1].id \in Keys(last.pre.validated) \cap Keys(last.pre.unvalidated)
    /\ \E k \in Keys(validated) \cap Keys(unvalidated) :
          /\ IdLess(k, last.arg[1].id)
          /\ validated.artifacts[k] = last.pre.validated.artifacts[k]
          /\ unvalidated.artifacts[k] = last.pre.unvalidated.artifacts[k]

\* The entries and the bytes of both sections together.
TotalCount(pool) == SectionSize(pool.validated) + SectionSize(pool.unvalidated)
TotalBytes(pool) == pool.validated.byte_size + pool.unvalidated.byte_size

\* C36 as stated: a MoveToValidated(id) applied while id is in the
\* unvalidated section leaves the combined entry count and the combined byte
\* total as they were, and so the value of exceeds_threshold().
C36_PromotionConservesTotals ==
    \A i \in Steps :
        LET a == last.arg[i]
            before == last.trace[i]
            after == last.trace[i + 1]
        IN  (a.kind = "MoveToValidated" /\ a.id \in Keys(before.unvalidated)) =>
                /\ TotalCount(after) = TotalCount(before)
                /\ TotalBytes(after) = TotalBytes(before)
                /\ ExceedsIn(after) <=> ExceedsIn(before)

\* C36 amended: a MoveToValidated(id) applied while id is in the unvalidated
\* section and not in the validated one moves one entry and its bytes from
\* unvalidated to validated: the combined count, the combined bytes and
\* exceeds_threshold() stay. When id is in the validated section as well, the
\* validated entry is replaced: the combined count falls by one and the
\* combined bytes by the bytes of the replaced entry, and exceeds_threshold()
\* can only go from true to false.
C36_PromotionOfUnvalidatedOnly ==
    \A i \in Steps :
        LET a == last.arg[i]
            before == last.trace[i]
            after == last.trace[i + 1]
        IN  (a.kind = "MoveToValidated" /\ a.id \in Keys(before.unvalidated)) =>
                LET moved == ArtifactBytes(before.unvalidated.artifacts[a.id])
                IN  /\ SectionSize(after.unvalidated)
                          = SectionSize(before.unvalidated) - 1
                    /\ after.unvalidated.byte_size
                          = before.unvalidated.byte_size - moved
                    /\ IF a.id \in Keys(before.validated)
                       THEN LET replaced ==
                                    ArtifactBytes(before.validated.artifacts[a.id])
                            IN  /\ SectionSize(after.validated)
                                      = SectionSize(before.validated)
                                /\ after.validated.byte_size
                                      = (before.validated.byte_size - replaced)
                                            + moved
                                /\ TotalCount(after) = TotalCount(before) - 1
                                /\ TotalBytes(after)
                                      = TotalBytes(before) - replaced
                                /\ ExceedsIn(after) => ExceedsIn(before)
                       ELSE /\ SectionSize(after.validated)
                                  = SectionSize(before.validated) + 1
                            /\ after.validated.byte_size
                                  = before.validated.byte_size + moved
                            /\ TotalCount(after) = TotalCount(before)
                            /\ TotalBytes(after) = TotalBytes(before)
                            /\ ExceedsIn(after) <=> ExceedsIn(before)

\* A 2-byte message that was unvalidated only was promoted beside a validated
\* message, in a pool at its byte cap: the totals are as before.
C36_Witness ==
    /\ Completed
    /\ Len(last.arg) = 1
    /\ last.arg[1].kind = "MoveToValidated"
    /\ last.arg[1].id \in Keys(last.pre.unvalidated) \ Keys(last.pre.validated)
    /\ ArtifactBytes(validated.artifacts[last.arg[1].id]) = 2
    /\ SectionSize(validated) = 2
    /\ TotalBytes(Pool) = TotalBytes(last.pre)
    /\ TotalBytes(Pool) = ingress_pool_max_bytes
    /\ TotalCount(Pool) < ingress_pool_max_count

\* The owner follows an id, and the validated section holds it.
FollowedIsValidated == earlier # NoCall /\ earlier.arg \in Keys(validated)

\* The artifact of the latest insert of the id the owner follows.
LatestInsert ==
    IF earlier.trace = <<>> THEN earlier.pre ELSE earlier.trace[1]

\* C37 as stated: the timestamp of a validated entry is the one supplied with
\* the first insert of its id since the id was last in neither section.
C37_TimestampOfFirstInsert ==
    FollowedIsValidated =>
        validated.artifacts[earlier.arg].timestamp = earlier.pre.timestamp

\* C37 amended: an insert stores the timestamp supplied with it, also when
\* the id is pooled already, so that the unvalidated entry of an id carries
\* the timestamp of the latest insert of the id; MoveToValidated gives the
\* validated entry the timestamp the unvalidated entry has then; remove and
\* the other actions leave the timestamps of the validated entries alone. A
\* validated entry has the timestamp of the first insert when the id was
\* inserted once since its arrival.
C37_TimestampOfLatestInsert ==
    /\ (earlier # NoCall /\ last = NoCall
            /\ earlier.arg \in Keys(unvalidated)) =>
          unvalidated.artifacts[earlier.arg].timestamp = LatestInsert.timestamp
    /\ last.op = "insert" =>
          /\ unvalidated.artifacts[IngressMessageIdFrom(last.arg.message)].timestamp
                = last.arg.timestamp
          /\ validated = last.pre.validated
    /\ last.op = "remove" => validated = last.pre.validated
    /\ \A i \in Steps :
          LET a == last.arg[i]
              before == last.trace[i]
              after == last.trace[i + 1]
          IN  \A k \in Keys(after.validated) :
                  IF a.kind = "MoveToValidated" /\ a.id = k
                        /\ k \in Keys(before.unvalidated)
                  THEN after.validated.artifacts[k].timestamp
                          = before.unvalidated.artifacts[k].timestamp
                  ELSE /\ k \in Keys(before.validated)
                       /\ after.validated.artifacts[k].timestamp
                             = before.validated.artifacts[k].timestamp
    /\ (FollowedIsValidated /\ earlier.trace = <<>>) =>
          validated.artifacts[earlier.arg].timestamp = earlier.pre.timestamp

\* An id arrived with timestamp 0, was inserted again with timestamp 1 and
\* was promoted then: the validated entry has timestamp 1.
C37_Witness ==
    /\ Completed
    /\ Len(last.arg) = 1
    /\ last.arg[1].kind = "MoveToValidated"
    /\ earlier # NoCall
    /\ earlier.arg = last.arg[1].id
    /\ earlier.pre.timestamp = 0
    /\ LatestInsert.timestamp = 1
    /\ earlier.arg \notin Keys(last.pre.validated)
    /\ validated.artifacts[earlier.arg].timestamp = 1

\* The operations that read the pool.
ReadOps ==
    {"contains", "get_validated_by_identifier", "get_all_validated_by_filter",
     "select_validated", "exceeds_threshold", "get_priority_function",
     "priority_fn"}

ByIdAndTime(id, now) ==
    IF now <= id[1] /\ id[1] <= now + MAX_INGRESS_TTL THEN "Later" ELSE "Drop"

\* The last call and the one the owner kept are calls of one priority
\* function, made below the threshold, for one id.
AskedTwice ==
    /\ earlier.op = "priority_fn"
    /\ last.op = "priority_fn"
    /\ earlier.trace[2] = last.trace[2]
    /\ ~last.trace[2].drop_all
    /\ earlier.arg = last.arg

\* C39: a priority function produced while exceeds_threshold() was false
\* gives a priority that depends on the id and the time of the call only:
\* two calls for one id at one time give the same, however the pool differs
\* between them and whether or not it exceeds its threshold by then. The
\* time source never goes back, and once the function gave Drop for an id at
\* a time after the id's expiry it does not give Later for that id again.
C39_PriorityByIdAndTime ==
    /\ (last.op = "priority_fn" /\ ~last.trace[2].drop_all) =>
          last.result = Some(ByIdAndTime(last.arg, last.trace[1]))
    /\ AskedTwice =>
          /\ earlier.trace[1] <= last.trace[1]
          /\ earlier.trace[1] = last.trace[1] => earlier.result = last.result
          /\ (earlier.result = Some("Drop") /\ earlier.trace[1] > earlier.arg[1])
                => last.result = Some("Drop")

\* The function gave Drop for an id that had expired, with the pool below
\* its threshold, and Drop again at a later time, with the pool exceeding
\* it.
C39_Witness ==
    /\ AskedTwice
    /\ earlier.result = Some("Drop")
    /\ earlier.trace[1] > earlier.arg[1]
    /\ earlier.trace[1] < last.trace[1]
    /\ ~ExceedsIn(earlier.pre)
    /\ ExceedsIn(last.pre)
    /\ last.result = Some("Drop")

\* Every neuron of the stable neuron store is inactive at the current time.
StableNeuronsInactive ==
    \A neuron_id \in DOMAIN stable_neuron_store :
        IsInactive(stable_neuron_store[neuron_id], Now)

\* C33: after any sequence of add_neuron, remove_neuron and with_neuron_mut
\* calls, with the current time changed in between by the clock going on or
\* by set_time_warp, every neuron in the stable neuron store is inactive at
\* the current time.
C33_StableNeuronsInactive == StableNeuronsInactive

\* C40: add_neuron with a neuron whose id the store contains, on the heap or
\* in the stable neuron store, returns NeuronAlreadyExists(id) and leaves the
\* heap neurons, the stable neuron store and all indexes as they were; when
\* it succeeds the store contains the id and len() is one more than before.
C40_AddNeuron ==
    last.op = "add_neuron" =>
        LET neuron_id == last.arg.id
        IN  /\ NeuronStoreContains(last.pre, neuron_id) =>
                  /\ last.result = Err(<<"NeuronAlreadyExists", neuron_id>>)
                  /\ Stored = last.pre
            /\ last.result[1] = "Ok" =>
                  /\ NeuronStoreContains(Stored, neuron_id)
                  /\ neuron_id \in DOMAIN heap_neurons
                        \/ neuron_id \in DOMAIN stable_neuron_store
                  /\ NeuronStoreLen(Stored) = NeuronStoreLen(last.pre) + 1

\* add_neuron was refused for an id that only the stable neuron store holds,
\* next to another neuron added before.
C40_Witness ==
    /\ last.op = "add_neuron"
    /\ last.arg.id \in DOMAIN last.pre.stable_neuron_store
    /\ last.arg.id \notin DOMAIN last.pre.heap_neurons
    /\ last.arg # last.pre.stable_neuron_store[last.arg.id]
    /\ last.result = Err(<<"NeuronAlreadyExists", last.arg.id>>)
    /\ NeuronStoreLen(last.pre) = 2

\* C34: grow_upgrades_memory_to(target) never shrinks the upgrades memory
\* and never panics: with a target of at most the current size the size
\* stays; where the memory grows, its size is the target afterwards; where
\* the grow fails, the target being beyond the maximum of pages, the size
\* stays.
C34_GrowUpgradesMemoryTo ==
    last.op = "grow_upgrades_memory_to" =>
        /\ status = "running"
        /\ upgrades_memory >= last.pre
        /\ last.arg <= last.pre => upgrades_memory = last.pre
        /\ upgrades_memory # last.pre => upgrades_memory = last.arg
        /\ last.arg > MAX_PAGES => upgrades_memory = last.pre
        /\ (last.pre < last.arg /\ last.arg <= MAX_PAGES) =>
              upgrades_memory = last.arg

\* A memory of some pages was asked to grow to fewer, and kept its size.
C34_Witness ==
    /\ last.op = "grow_upgrades_memory_to"
    /\ 0 < last.arg
    /\ last.arg < last.pre
    /\ upgrades_memory = last.pre

====
